---------------------------- MODULE Spec2Model ----------------------------
(***************************************************************************)
(* A model of phase_3/python_chainguard/app.py: the aiohttp application    *)
(* that aggregates supply-chain verification evidence.                     *)
(*                                                                         *)
(* Text is modelled as a sequence of tokens (each token a TLA+ string      *)
(* standing for a run of characters that the code never looks inside), so  *)
(* that split, endswith, "in" and the regular expressions are computed     *)
(* and not assumed.  A Python dict is a TLA+ record; a key the dict lacks  *)
(* is a field the record lacks.  Python's None is the token string None.   *)
(*                                                                         *)
(* The module holds several specifications over one set of variables:      *)
(*   SpecParse  parse_chainver_output on bounded verifier documents        *)
(*   SpecWheel  get_wheel_contents and build_file_tree on bounded archives *)
(*   SpecHash   get_wheel_hash, the chunked digest of a file               *)
(*   SpecProv   get_parsed_provenance_handler and parse_provenance_data    *)
(*   SpecPep740  get_pep740_attestations_handler                           *)
(*   SpecResolve  concurrent calls of resolve_tag_to_commit                *)
(*   SpecSbom   get_sbom_handler, which calls resolve_tag_to_commit        *)
(*   Spec       the authentication worker, the verification-run handlers   *)
(*              and the log reader, running concurrently                   *)
(*   SpecLive   Spec with the fairness the scheduling justifies            *)
(***************************************************************************)
EXTENDS Integers, Sequences, FiniteSets, TLC

VARIABLES cv, wh, hs, pv, rt, app, sb, pep

vars == <<cv, wh, hs, pv, rt, app, sb, pep>>

(***************************************************************************)
(* Bounds of the model.                                                    *)
(***************************************************************************)
MaxEntries == 2

MaxFiles == 3

\* the longest file hashed, and the largest block one read returns
MaxFileLen == 4

MaxChunk == 3

\* the block length and the range of the stand-in for SHA-256's compression
HashBlockLen == 2

HashRange == 251

\* the most attestations in one bundle
MaxAttestations == 2

\* the number of concurrent calls of resolve_tag_to_commit
MaxCalls == 2

\* the verification-run requests in flight at once
MaxRuns == 2

\* the packages of an SBOM document
MaxPackages == 2

(***************************************************************************)
(* The value of a variable in the specifications that leave its part of    *)
(* the application out.                                                    *)
(***************************************************************************)
Idle == [phase |-> "idle"]

(***************************************************************************)
(* Token strings.                                                          *)
(***************************************************************************)
None == <<"<None>">>

\* s[i:] and s[:n] of Python, 1-based
Drop(s, n) == SubSeq(s, n + 1, Len(s))

Take(s, n) == SubSeq(s, 1, n)

\* pat occurs in s starting at position i
OccursAt(s, pat, i) ==
    /\ i >= 1
    /\ i + Len(pat) - 1 <= Len(s)
    /\ \A k \in 1..Len(pat) : s[i + k - 1] = pat[k]

\* Python: pat in s
Contains(s, pat) == \E i \in 1..Len(s) : OccursAt(s, pat, i)

\* Python: s.find(pat) + 1, 0 when absent
Find(s, pat) ==
    IF Contains(s, pat)
    THEN CHOOSE i \in 1..Len(s) :
            /\ OccursAt(s, pat, i)
            /\ \A j \in 1..(i - 1) : ~OccursAt(s, pat, j)
    ELSE 0

\* Python: s.endswith(pat)
EndsWith(s, pat) == Len(s) >= Len(pat) /\ OccursAt(s, pat, Len(s) - Len(pat) + 1)

\* Python: s.split(sep) for a one-token separator; always at least one part
RECURSIVE Split(_, _)
Split(s, sep) ==
    LET i == Find(s, <<sep>>)
    IN  IF i = 0 THEN <<s>>
        ELSE <<Take(s, i - 1)>> \o Split(Drop(s, i), sep)

\* Python: s.split(pat, 1) for a separator that occurs in s
SplitOnce(s, pat) ==
    LET i == Find(s, pat)
    IN  <<Take(s, i - 1), Drop(s, i + Len(pat) - 1)>>

\* Python: d.get(k, default)
Get(d, k, default) == IF k \in DOMAIN d THEN d[k] ELSE default

\* pathlib: Path(p).name, the last component, trailing separators dropped
RECURSIVE PathName(_)
PathName(p) ==
    IF p = <<>> THEN <<>>
    ELSE IF p[Len(p)] = "/" THEN PathName(Take(p, Len(p) - 1))
    ELSE LET parts == Split(p, "/") IN parts[Len(parts)]


(***************************************************************************)
(* parse_chainver_output: the verifier's JSON document to package records. *)
(***************************************************************************)
Digits == {"4", "2", "7"}

RekorHost == <<"rekor.sigstore.dev">>

\* https://rekor.sigstore.dev/api/v1/log/entries/?logIndex=
RekorUrlPrefix ==
    <<"https://", "rekor.sigstore.dev", "/api/v1/log/entries/?", "logIndex", "=">>

SearchUrlPrefix == <<"https://search.sigstore.dev/?logIndex=">>

\* the longest run of digit tokens of s that starts at i: \d+ (greedy)
RECURSIVE DigitRun(_, _)
DigitRun(s, i) ==
    IF i <= Len(s) /\ s[i] \in Digits
    THEN <<s[i]>> \o DigitRun(s, i + 1)
    ELSE <<>>

\* the number of tokens of [=:\s]+ (greedy) starting at i
RECURSIVE SepRun(_, _)
SepRun(s, i) ==
    IF i <= Len(s) /\ s[i] \in {"=", ":", " "}
    THEN 1 + SepRun(s, i + 1)
    ELSE 0

\* re.search(r'(https://rekor\.sigstore\.dev/api/v1/log/entries/\?logIndex=\d+)')
FullUrlAt(s, i) ==
    OccursAt(s, RekorUrlPrefix, i) /\ DigitRun(s, i + Len(RekorUrlPrefix)) # <<>>

\* re.search(r'logIndex[=:\s]+(\d+)')
LogIndexAt(s, i) ==
    /\ OccursAt(s, <<"logIndex">>, i)
    /\ SepRun(s, i + 1) >= 1
    /\ DigitRun(s, i + 1 + SepRun(s, i + 1)) # <<>>

\* the leftmost match of each regular expression, 0 without one
FirstFullUrl(s) ==
    IF \E i \in 1..Len(s) : FullUrlAt(s, i)
    THEN CHOOSE i \in 1..Len(s) : FullUrlAt(s, i) /\ \A j \in 1..(i - 1) : ~FullUrlAt(s, j)
    ELSE 0

FirstLogIndex(s) ==
    IF \E i \in 1..Len(s) : LogIndexAt(s, i)
    THEN CHOOSE i \in 1..Len(s) : LogIndexAt(s, i) /\ \A j \in 1..(i - 1) : ~LogIndexAt(s, j)
    ELSE 0

\* lines 374-386 and 415-427: the transparency-log URL of one entry
ExtractRekor(is_verified, details_str) ==
    IF is_verified /\ Contains(details_str, RekorHost)
    THEN LET u == FirstFullUrl(details_str)
             x == FirstLogIndex(details_str)
         IN  IF u # 0
             THEN RekorUrlPrefix \o DigitRun(details_str, u + Len(RekorUrlPrefix))
             ELSE IF x # 0
             THEN SearchUrlPrefix
                    \o DigitRun(details_str, x + 1 + SepRun(details_str, x + 1))
             ELSE None
    ELSE None

\* lines 351-367: name and version from the artifact's file name
ArtifactNameVersion(artifact) ==
    LET artifact_path == Get(artifact, "artifact", <<>>)
        filename == PathName(artifact_path)
    IN  IF EndsWith(filename, <<".whl">>)
        THEN LET name_parts == Split(Take(filename, Len(filename) - 1), "-")
             IN  IF Len(name_parts) >= 2
                 THEN [name |-> name_parts[1], version |-> name_parts[2]]
                 ELSE [name |-> filename, version |-> <<>>]
        ELSE [name |-> filename, version |-> <<>>]

\* line 370
ArtifactVerifiedMut(artifact) == Get(artifact, "artifactVerificationCoverage", 0) >= 100

ArtifactVerified(artifact) == Get(artifact, "artifactVerificationCoverage", 0) = 100

\* lines 350-395: the record of one entry of results
ArtifactRecord(artifact) ==
    LET nv == ArtifactNameVersion(artifact)
        is_verified == ArtifactVerified(artifact)
        details_str == Get(artifact, "details", <<>>)
    IN  [name |-> nv.name,
         version |-> nv.version,
         verified |-> is_verified,
         details |-> details_str,
         verification_method |-> IF is_verified THEN <<"signature">> ELSE <<"none">>,
         rekor_url |-> ExtractRekor(is_verified, details_str)]

\* lines 403-408: name and version from the coordinates
CoordinatesNameVersionMut(pkg_result) ==
    LET coordinates == Get(pkg_result, "coordinates", <<>>)
    IN  IF Contains(coordinates, <<"=">>)
        THEN LET nv == SplitOnce(coordinates, <<"=">>)
             IN  [name |-> nv[1], version |-> nv[2]]
        ELSE [name |-> Get(pkg_result, "path", <<"Unknown">>), version |-> <<>>]

CoordinatesNameVersion(pkg_result) ==
    LET coordinates == Get(pkg_result, "coordinates", <<>>)
    IN  IF Contains(coordinates, <<"=", "=">>)
        THEN LET nv == SplitOnce(coordinates, <<"=", "=">>)
             IN  [name |-> nv[1], version |-> nv[2]]
        ELSE [name |-> Get(pkg_result, "path", <<"Unknown">>), version |-> <<>>]

\* lines 401-436: the record of one entry of nestedResults
NestedRecord(pkg_result) ==
    LET nv == CoordinatesNameVersion(pkg_result)
        is_verified == Get(pkg_result, "verificationCoverage", 0) = 100
        details_str == Get(pkg_result, "details", <<>>)
    IN  [name |-> nv.name,
         version |-> nv.version,
         verified |-> is_verified,
         details |-> details_str,
         verification_method |-> Get(pkg_result, "verificationMethod", <<"none">>),
         rekor_url |-> ExtractRekor(is_verified, details_str)]

\* the two for loops: one record appended per entry, verified ones counted
RECURSIVE AppendRecords(_, _, _)
AppendRecords(results, records, i) ==
    IF i > Len(records) THEN results
    ELSE AppendRecords(
            [results EXCEPT
                !.verified_count = IF records[i].verified THEN @ + 1 ELSE @,
                !.packages = Append(@, records[i])],
            records, i + 1)

\* line 346: if artifact_results (a list is true when it is not empty)
UseArtifactResults(chainver_data) == Get(chainver_data, "results", <<>>) # <<>>

parse_chainver_output(chainver_data) ==
    LET results ==
            [verified_count |-> 0,
             total_count |-> 0,
             packages |-> <<>>,
             overall_coverage |->
                Get(chainver_data, "overallVerificationCoverage",
                    Get(chainver_data, "artifactVerificationCoverage", 0)),
             artifact_coverage |-> Get(chainver_data, "artifactVerificationCoverage", 0),
             details |-> Get(chainver_data, "details", <<>>)]
        artifact_results == Get(chainver_data, "results", <<>>)
        nested_results == Get(chainver_data, "nestedResults", <<>>)
    IN  IF UseArtifactResults(chainver_data)
        THEN AppendRecords([results EXCEPT !.total_count = Len(artifact_results)],
                           [i \in DOMAIN artifact_results |-> ArtifactRecord(artifact_results[i])],
                           1)
        ELSE AppendRecords([results EXCEPT !.total_count = Len(nested_results)],
                           [i \in DOMAIN nested_results |-> NestedRecord(nested_results[i])],
                           1)

(***************************************************************************)
(* The verifier documents the model feeds to parse_chainver_output.        *)
(***************************************************************************)
WheelPath ==
    <<"/", "app", "/", "wheels", "/",
      "flask", "-", "3.1.2", "-", "py3", "-", "none", "-", "any", ".whl">>

ArtifactPaths == {WheelPath, <<"single", ".whl">>, <<"noext", "-", "1.0">>}

Coverages == {99, 100, 101}

DetailsTexts ==
    { <<"signed">>,
      <<"see", " ">> \o RekorUrlPrefix \o <<"4", "2">>,
      <<"rekor.sigstore.dev", " ", "logIndex", ":", " ", "7">>,
      <<"logIndex", "=", "7">> }

ArtifactUniverse ==
    { [artifact |-> p, artifactVerificationCoverage |-> c] :
        p \in ArtifactPaths, c \in Coverages }
    \cup { [artifact |-> p] : p \in ArtifactPaths }
    \cup { [artifactVerificationCoverage |-> c] : c \in Coverages }
    \cup { [artifact |-> WheelPath, artifactVerificationCoverage |-> c, details |-> d] :
            c \in {99, 100}, d \in DetailsTexts }

CoordinateTexts ==
    { <<"flask", "=", "=", "3.1.2">>,
      <<"flask">>,
      <<"flask", "=", "3.1.2">>,
      <<"a", "=", "=", "=", "b">> }

SitePath == <<"site-packages", "/", "flask">>

NestedUniverse ==
    { [coordinates |-> k, path |-> SitePath, verificationCoverage |-> 100] :
        k \in CoordinateTexts }
    \cup { [coordinates |-> k, verificationCoverage |-> 100] : k \in CoordinateTexts }
    \cup { [path |-> SitePath], [verificationCoverage |-> 100] }
    \cup { [coordinates |-> <<"flask", "=", "=", "3.1.2">>,
            verificationCoverage |-> c, verificationMethod |-> m] :
            c \in Coverages, m \in {<<"signature">>, <<"none">>} }
    \cup { [coordinates |-> <<"flask", "=", "=", "3.1.2">>,
            verificationCoverage |-> c, details |-> d] :
            c \in {99, 100}, d \in DetailsTexts }

ListsUpTo(S, n) == UNION { [1..k -> S] : k \in 0..n }

ChainverInputs ==
    { [results |-> l] : l \in ListsUpTo(ArtifactUniverse, MaxEntries) }
    \cup { [nestedResults |-> l] : l \in ListsUpTo(NestedUniverse, MaxEntries) }
    \cup { [results |-> l, nestedResults |-> n] :
            l \in ListsUpTo(ArtifactUniverse, 1), n \in ListsUpTo(NestedUniverse, 1) }
    \cup { [artifactVerificationCoverage |-> 50],
           [overallVerificationCoverage |-> 75, artifactVerificationCoverage |-> 50,
            details |-> <<"signed">>] }

NotParsed == [error |-> "not parsed"]

InitParse ==
    /\ cv \in { [phase |-> "input", data |-> d, results |-> NotParsed] : d \in ChainverInputs }
    /\ wh = Idle
    /\ hs = Idle
    /\ pv = Idle
    /\ rt = Idle
    /\ app = Idle
    /\ sb = Idle
    /\ pep = Idle

\* a call parse_chainver_output(chainver_data)
ParseChainverOutput ==
    /\ cv.phase = "input"
    /\ cv' = [cv EXCEPT !.phase = "parsed", !.results = parse_chainver_output(cv.data)]
    /\ UNCHANGED <<wh, hs, pv, rt, app, sb, pep>>

NextParse == ParseChainverOutput

SpecParse == InitParse /\ [][NextParse]_vars

(***************************************************************************)
(* Properties of parse_chainver_output.                                    *)
(***************************************************************************)
\* a document of the per-artifact shape: it has results and no nestedResults
IsPerArtifact(d) == "results" \in DOMAIN d /\ "nestedResults" \notin DOMAIN d

\* the nestedResults loop ran: results is missing or empty
IsLegacy(d) == Get(d, "results", <<>>) = <<>>

Coverage100(e) ==
    "artifactVerificationCoverage" \in DOMAIN e /\ e.artifactVerificationCoverage = 100

\* C2: a per-artifact document whose results list has N entries yields exactly
\* N package records, in the order of the entries, with total_count = N, and
\* record i is verified iff entry i has artifactVerificationCoverage = 100
\* (99, 101 and a missing field give false).
C2_PerArtifactRecords ==
    (cv.phase = "parsed" /\ IsPerArtifact(cv.data)) =>
        LET N == Len(cv.data.results)
        IN  /\ Len(cv.results.packages) = N
            /\ cv.results.total_count = N
            /\ \A i \in 1..N :
                /\ cv.results.packages[i].verified = Coverage100(cv.data.results[i])
                /\ cv.results.packages[i].details = Get(cv.data.results[i], "details", <<>>)
            /\ cv.results.verified_count =
                    Cardinality({i \in 1..N : Coverage100(cv.data.results[i])})

\* two entries, the first with coverage 101 and the second with coverage 100,
\* have been parsed
C2_Witness ==
    /\ cv.phase = "parsed"
    /\ IsPerArtifact(cv.data)
    /\ Len(cv.data.results) = 2
    /\ Get(cv.data.results[1], "artifactVerificationCoverage", 0) = 101
    /\ Get(cv.data.results[2], "artifactVerificationCoverage", 0) = 100
    /\ cv.results.packages[2].verified
    /\ ~cv.results.packages[1].verified

\* C10: for every entry of nestedResults, coordinates holding "==" are split
\* at the first "==" into name and version ("flask==3.1.2" gives "flask" and
\* "3.1.2"); coordinates without "==", or no coordinates, give the entry's
\* path ("Unknown" without one) as name and the empty version.
C10_LegacyCoordinates ==
    (cv.phase = "parsed" /\ IsLegacy(cv.data)) =>
        LET entries == Get(cv.data, "nestedResults", <<>>)
        IN  /\ Len(cv.results.packages) = Len(entries)
            /\ \A i \in 1..Len(entries) :
                LET k == Get(entries[i], "coordinates", <<>>)
                    r == cv.results.packages[i]
                IN  /\ Contains(k, <<"=", "=">>) =>
                        /\ r.name \o <<"=", "=">> \o r.version = k
                        /\ \A j \in 1..Len(r.name) : ~OccursAt(k, <<"=", "=">>, j)
                    /\ ~Contains(k, <<"=", "=">>) =>
                        /\ r.name = Get(entries[i], "path", <<"Unknown">>)
                        /\ r.version = <<>>
                    /\ k = <<"flask", "=", "=", "3.1.2">> =>
                        r.name = <<"flask">> /\ r.version = <<"3.1.2">>

\* "flask==3.1.2" and coordinates with a single "=" have been parsed
C10_Witness ==
    /\ cv.phase = "parsed"
    /\ "results" \notin DOMAIN cv.data
    /\ Len(cv.results.packages) = 2
    /\ Get(cv.data.nestedResults[1], "coordinates", <<>>) = <<"flask", "=", "=", "3.1.2">>
    /\ cv.results.packages[1].name = <<"flask">>
    /\ Get(cv.data.nestedResults[2], "coordinates", <<>>) = <<"flask", "=", "3.1.2">>
    /\ cv.results.packages[2].name = SitePath
    /\ cv.results.packages[2].version = <<>>

\* C13: every record, of either shape, that is verified has a
\* verification_method other than "none".
C13_VerifiedHasMethod ==
    cv.phase = "parsed" =>
        \A i \in DOMAIN cv.results.packages :
            cv.results.packages[i].verified =>
                cv.results.packages[i].verification_method # <<"none">>

\* the file name of an entry without its archive suffix
StrippedName(artifact) ==
    LET filename == PathName(Get(artifact, "artifact", <<>>))
    IN  IF EndsWith(filename, <<".whl">>) THEN Take(filename, Len(filename) - 1) ELSE filename

\* C16: for every entry of results, the name and the version are the first
\* and the second segment of the file name, stripped of its archive suffix
\* and split on "-"; with fewer than two segments the name is the whole
\* stripped name and the version is empty.
C16_NameFromStrippedFilename ==
    (cv.phase = "parsed" /\ IsPerArtifact(cv.data)) =>
        \A i \in DOMAIN cv.data.results :
            LET segments == Split(StrippedName(cv.data.results[i]), "-")
                r == cv.results.packages[i]
            IN  IF Len(segments) >= 2
                THEN r.name = segments[1] /\ r.version = segments[2]
                ELSE r.name = StrippedName(cv.data.results[i]) /\ r.version = <<>>

\* C17: whenever the document has a results field, an empty list included,
\* there is one record per entry of results and nestedResults adds none.
C17_ResultsFieldDecides ==
    (cv.phase = "parsed" /\ "results" \in DOMAIN cv.data) =>
        /\ cv.results.total_count = Len(cv.data.results)
        /\ Len(cv.results.packages) = Len(cv.data.results)

\* the entries a document's records were made from
EntriesOf(d) ==
    IF Get(d, "results", <<>>) # <<>> THEN d.results ELSE Get(d, "nestedResults", <<>>)

\* C18: for every entry of either shape, verified or not, rekor_url is the
\* full log URL found in details, else the search URL made from the log index
\* found in details, else None.
C18_RekorUrlFromDetails ==
    cv.phase = "parsed" =>
        \A i \in DOMAIN cv.results.packages :
            LET details_str == Get(EntriesOf(cv.data)[i], "details", <<>>)
                u == FirstFullUrl(details_str)
                x == FirstLogIndex(details_str)
            IN  cv.results.packages[i].rekor_url =
                    IF u # 0
                    THEN RekorUrlPrefix \o DigitRun(details_str, u + Len(RekorUrlPrefix))
                    ELSE IF x # 0
                    THEN SearchUrlPrefix
                            \o DigitRun(details_str, x + 1 + SepRun(details_str, x + 1))
                    ELSE None

(***************************************************************************)
(* get_wheel_contents and build_file_tree: the archive's flat entry list   *)
(* folded into a tree.  A dict is a function from keys to values.          *)
(***************************************************************************)
EmptyDict == <<>>

\* d[k] = v
DictPut(d, k, v) == [x \in DOMAIN d \cup {k} |-> IF x = k THEN v ELSE d[x]]

\* lines 313-320: the last segment of a path; an empty one is skipped
InsertLeafMut(current, part, item) ==
    DictPut(current, part,
            [type |-> IF item.is_dir THEN "dir" ELSE "file",
             size |-> item.size,
             path |-> item.path])

InsertLeaf(current, part, item) ==
    IF part # <<>>
    THEN DictPut(current, part,
                 [type |-> IF item.is_dir THEN "dir" ELSE "file",
                  size |-> item.size,
                  path |-> item.path])
    ELSE current

\* lines 321-326: the node of a directory segment, created or given children
DirNode(current, part) ==
    IF part \notin DOMAIN current
    THEN [type |-> "dir", children |-> EmptyDict]
    ELSE IF "children" \notin DOMAIN current[part]
    THEN [k \in DOMAIN current[part] \cup {"children"} |->
            IF k = "children" THEN EmptyDict ELSE current[part][k]]
    ELSE current[part]

\* lines 312-327: the inner loop over path_parts, from segment i on
RECURSIVE InsertPath(_, _, _, _)
InsertPath(current, path_parts, i, item) ==
    IF i = Len(path_parts)
    THEN InsertLeaf(current, path_parts[i], item)
    ELSE LET node == DirNode(current, path_parts[i])
         IN  DictPut(current, path_parts[i],
                     [node EXCEPT
                        !.children = InsertPath(@, path_parts, i + 1, item)])

\* lines 308-327: the outer loop over file_info, from item n on
RECURSIVE InsertItems(_, _, _)
InsertItems(tree, file_info, n) ==
    IF n > Len(file_info) THEN tree
    ELSE InsertItems(InsertPath(tree, Split(file_info[n].path, "/"), 1, file_info[n]),
                     file_info, n + 1)

build_file_tree(file_info) == InsertItems(EmptyDict, file_info, 1)

\* lines 278-286: one entry of the archive as a file_info item
FileInfo(info) ==
    [path |-> info.filename,
     size |-> info.file_size,
     compressed_size |-> info.compress_size,
     is_dir |-> EndsWith(info.filename, <<"/">>)]

RECURSIVE SumSizes(_, _)
SumSizes(file_info, n) ==
    IF n > Len(file_info) THEN 0
    ELSE file_info[n].size + SumSizes(file_info, n + 1)

\* lines 258-301
get_wheel_contents(package_name, version, wheel) ==
    IF wheel.found = FALSE
    THEN [error |-> "Wheel file not found"]
    ELSE IF wheel.is_zip = FALSE
    THEN [error |-> "str(e)"]
    ELSE LET file_list == [i \in DOMAIN wheel.entries |-> wheel.entries[i].filename]
             file_info == [i \in DOMAIN wheel.entries |-> FileInfo(wheel.entries[i])]
         IN  [package |-> package_name,
              version |-> version,
              wheel_file |-> wheel.name,
              total_files |-> Len(file_list),
              total_size |-> SumSizes(file_info, 1),
              files |-> file_info,
              tree |-> build_file_tree(file_info)]

(***************************************************************************)
(* The archives the model opens.  A directory entry of a zip archive       *)
(* carries no data: its file_size is 0.                                    *)
(***************************************************************************)
ZipEntries ==
    { [filename |-> <<"a", "/", "b.txt">>, file_size |-> z, compress_size |-> 2] : z \in {3, 5} }
    \cup { [filename |-> <<"a", "/", "c", "/">>, file_size |-> 0, compress_size |-> 0],
           [filename |-> <<"d.txt">>, file_size |-> 7, compress_size |-> 4],
           [filename |-> <<"a">>, file_size |-> 1, compress_size |-> 1],
           [filename |-> <<"a", "/">>, file_size |-> 0, compress_size |-> 0] }

WheelName == <<"flask", "-", "3.1.2", "-", "py3", "-", "none", "-", "any", ".whl">>

Wheels ==
    { [found |-> TRUE, is_zip |-> TRUE, name |-> WheelName, entries |-> l] :
        l \in ListsUpTo(ZipEntries, MaxFiles) }
    \cup { [found |-> FALSE], [found |-> TRUE, is_zip |-> FALSE, name |-> WheelName] }

InitWheel ==
    /\ wh \in { [phase |-> "request", wheel |-> w, contents |-> NotParsed] : w \in Wheels }
    /\ cv = Idle
    /\ hs = Idle
    /\ pv = Idle
    /\ rt = Idle
    /\ app = Idle
    /\ sb = Idle
    /\ pep = Idle

\* a call get_wheel_contents(package_name, version)
GetWheelContents ==
    /\ wh.phase = "request"
    /\ wh' = [wh EXCEPT !.phase = "done",
                        !.contents = get_wheel_contents(<<"flask">>, <<"3.1.2">>, wh.wheel)]
    /\ UNCHANGED <<cv, hs, pv, rt, app, sb, pep>>

NextWheel == GetWheelContents

SpecWheel == InitWheel /\ [][NextWheel]_vars

(***************************************************************************)
(* Properties of get_wheel_contents and build_file_tree.                   *)
(***************************************************************************)
Filenames(wheel) == [i \in DOMAIN wheel.entries |-> wheel.entries[i].filename]

ExampleArchive == << <<"a", "/", "b.txt">>, <<"a", "/", "c", "/">>, <<"d.txt">> >>

IsExample(w) ==
    /\ w.phase = "done"
    /\ "entries" \in DOMAIN w.wheel
    /\ Filenames(w.wheel) = ExampleArchive

\* C5: for the archive ["a/b.txt", "a/c/", "d.txt"] the tree holds a directory
\* a whose children are the file leaf b.txt and the empty directory c, and the
\* file leaf d.txt beside a; total_files = 3 (the directory entry is counted)
\* and total_size = size(b.txt) + size(d.txt).
C5_ExampleTree ==
    IsExample(wh) =>
        LET b == wh.wheel.entries[1]
            d == wh.wheel.entries[3]
            t == wh.contents.tree
        IN  /\ DOMAIN t = { <<"a">>, <<"d.txt">> }
            /\ t[<<"a">>].type = "dir"
            /\ DOMAIN t[<<"a">>].children = { <<"b.txt">>, <<"c">> }
            /\ t[<<"a">>].children[<<"b.txt">>] =
                    [type |-> "file", size |-> b.file_size, path |-> b.filename]
            /\ t[<<"a">>].children[<<"c">>] = [type |-> "dir", children |-> EmptyDict]
            /\ t[<<"d.txt">>] = [type |-> "file", size |-> d.file_size, path |-> d.filename]
            /\ wh.contents.total_files = 3
            /\ wh.contents.total_size = b.file_size + d.file_size

\* the example archive, with b.txt of 5 bytes, has been listed
C5_Witness ==
    /\ IsExample(wh)
    /\ wh.wheel.entries[1].file_size = 5
    /\ wh.contents.total_size = 12
    /\ <<"c">> \in DOMAIN wh.contents.tree[<<"a">>].children

\* the node of the tree at the end of the path path_parts[i..], or Missing
Missing == [type |-> "missing"]

RECURSIVE NodeAt(_, _, _)
NodeAt(tree, path_parts, i) ==
    IF path_parts[i] \notin DOMAIN tree THEN Missing
    ELSE IF i = Len(path_parts) THEN tree[path_parts[i]]
    ELSE IF "children" \notin DOMAIN tree[path_parts[i]] THEN Missing
    ELSE NodeAt(tree[path_parts[i]].children, path_parts, i + 1)

\* C11: for every list of entries, in any order, with a path that is a prefix
\* of another or a repeated path, every entry that is not a directory is a
\* file leaf of the tree at the place its path segments give, and every
\* listed directory is a directory node there.
C11_FaithfulRegrouping ==
    (wh.phase = "done" /\ "entries" \in DOMAIN wh.wheel) =>
        \A i \in DOMAIN wh.contents.files :
            LET item == wh.contents.files[i]
                parts == Split(item.path, "/")
                node == NodeAt(wh.contents.tree,
                               IF item.is_dir THEN Take(parts, Len(parts) - 1) ELSE parts, 1)
            IN  IF item.is_dir
                THEN node.type = "dir"
                ELSE node.type = "file" /\ node.path = item.path

(***************************************************************************)
(* get_wheel_hash: the digest of a file read block by block.  hashlib's    *)
(* sha256 object is a Merkle-Damgard hash: update() buffers the bytes and  *)
(* compresses every full block, hexdigest() pads and compresses the rest.  *)
(* The compression function here is a stand-in with a small range.         *)
(***************************************************************************)
Bytes == {0, 1}

RECURSIVE BlockValue(_)
BlockValue(block) ==
    IF block = <<>> THEN 1
    ELSE (3 * BlockValue(Take(block, Len(block) - 1)) + block[Len(block)] + 1) % HashRange

Compress(h, block) == (h * 31 + BlockValue(block) * 7 + 11) % HashRange

\* hashlib.sha256()
sha256_new == [h |-> 17, buf |-> <<>>, n |-> 0]

\* sha256_hash.update(byte_block)
RECURSIVE Absorb(_)
Absorb(st) ==
    IF Len(st.buf) >= HashBlockLen
    THEN Absorb([st EXCEPT !.h = Compress(@, Take(st.buf, HashBlockLen)),
                           !.buf = Drop(@, HashBlockLen)])
    ELSE st

sha256_update(st, byte_block) ==
    Absorb([st EXCEPT !.buf = @ \o byte_block, !.n = @ + Len(byte_block)])

\* sha256_hash.hexdigest(): the rest of the buffer and the length, compressed
sha256_hexdigest(st) == <<ToString(Compress(Compress(st.h, st.buf), <<st.n % 2>>))>>

\* f.read(size): the next block of the file, empty at its end
ReadBlockMut(content, pos, size) ==
    IF pos + size <= Len(content) THEN SubSeq(content, pos + 1, pos + size) ELSE <<>>

ReadBlock(content, pos, size) ==
    SubSeq(content, pos + 1, IF pos + size <= Len(content) THEN pos + size ELSE Len(content))

(***************************************************************************)
(* The files the model hashes, and the block length of one read (4096 in   *)
(* the source, scaled to the files of the model).                          *)
(***************************************************************************)
WheelFiles ==
    { [found |-> TRUE, readable |-> TRUE, content |-> c] : c \in ListsUpTo(Bytes, MaxFileLen) }
    \cup { [found |-> FALSE], [found |-> TRUE, readable |-> FALSE] }

InitHash ==
    /\ hs \in { [phase |-> "request", file |-> f, chunk |-> k, pos |-> 0,
                 sha256_hash |-> sha256_new, result |-> None] :
                 f \in WheelFiles, k \in 1..MaxChunk }
    /\ cv = Idle
    /\ wh = Idle
    /\ pv = Idle
    /\ rt = Idle
    /\ app = Idle
    /\ sb = Idle
    /\ pep = Idle

\* lines 233-246: the wheel is looked up and opened
GetWheelHashOpen ==
    /\ hs.phase = "request"
    /\ hs' = IF hs.file.found /\ hs.file.readable
             THEN [hs EXCEPT !.phase = "reading"]
             ELSE [hs EXCEPT !.phase = "done", !.result = None]
    /\ UNCHANGED <<cv, wh, pv, rt, app, sb, pep>>

\* lines 247-248: one turn of the loop, a block read and fed to the hash
GetWheelHashBlock ==
    /\ hs.phase = "reading"
    /\ LET byte_block == ReadBlock(hs.file.content, hs.pos, hs.chunk)
       IN  /\ byte_block # <<>>
           /\ hs' = [hs EXCEPT !.pos = @ + Len(byte_block),
                               !.sha256_hash = sha256_update(@, byte_block)]
    /\ UNCHANGED <<cv, wh, pv, rt, app, sb, pep>>

\* lines 247-253: the read returns b"", the loop ends and the digest is returned
GetWheelHashReturn ==
    /\ hs.phase = "reading"
    /\ ReadBlock(hs.file.content, hs.pos, hs.chunk) = <<>>
    /\ hs' = [hs EXCEPT !.phase = "done",
                        !.result = [sha256 |-> sha256_hexdigest(hs.sha256_hash),
                                    rekor_url |-> <<"https://search.sigstore.dev/?hash=">>
                                                    \o sha256_hexdigest(hs.sha256_hash)]]
    /\ UNCHANGED <<cv, wh, pv, rt, app, sb, pep>>

NextHash == GetWheelHashOpen \/ GetWheelHashBlock \/ GetWheelHashReturn

SpecHash == InitHash /\ [][NextHash]_vars

(***************************************************************************)
(* Properties of get_wheel_hash.                                           *)
(***************************************************************************)
\* the digest of a byte sequence fed to the hash in one piece
DigestOf(content) == sha256_hexdigest(sha256_update(sha256_new, content))

Hashed(h) == h.phase = "done" /\ h.file.found /\ h.file.readable

\* C9: the digest get_wheel_hash returns is the digest of the file's bytes
\* fed in one piece, whatever the block length of the reads: it depends on
\* the content alone, and the same content always gives the same digest.
C9_DigestOfContent ==
    Hashed(hs) => hs.result.sha256 = DigestOf(hs.file.content)

\* a file of four bytes has been hashed in blocks of three bytes and one byte
C9_Witness ==
    /\ Hashed(hs)
    /\ Len(hs.file.content) = 4
    /\ hs.chunk = 3
    /\ hs.pos = 4

(***************************************************************************)
(* parse_provenance_data: the attestation bundles of a provenance          *)
(* document.  An envelope's statement is text: Base64Of(t) is the base64   *)
(* encoding of the bytes t and JsonOf(v) the JSON text of the value v; a   *)
(* text that is neither decodes to an error.  A function that raises       *)
(* returns [raised |-> the exception].                                     *)
(***************************************************************************)
Base64Of(t) == [base64 |-> t]

JsonOf(v) == [json |-> v]

Raised(e) == [raised |-> e]

IsRaised(x) == "raised" \in DOMAIN x

\* base64.b64decode(text)
b64decode(text) ==
    IF "base64" \in DOMAIN text THEN text.base64 ELSE Raised("binascii.Error")

\* json.loads(text)
json_loads(text) ==
    IF "json" \in DOMAIN text THEN text.json ELSE Raised("JSONDecodeError")

\* lines 2376-2377
DecodeStatement(text) ==
    LET statement_bytes == b64decode(text)
    IN  IF IsRaised(statement_bytes) THEN statement_bytes ELSE json_loads(statement_bytes)

\* att_info[k] = v for each field of a record of new fields
WithFields(d, new) ==
    [k \in DOMAIN d \cup DOMAIN new |-> IF k \in DOMAIN new THEN new[k] ELSE d[k]]

\* lines 2379-2392: the fields taken from a decoded statement
StatementFields(statement) ==
    LET predicate == Get(statement, "predicate", EmptyDict)
        build_def == Get(predicate, "buildDefinition", EmptyDict)
        run_details == Get(predicate, "runDetails", EmptyDict)
    IN  [subject |-> Get(statement, "subject", <<>>),
         build_type |-> Get(build_def, "buildType", <<>>),
         external_parameters |-> Get(build_def, "externalParameters", EmptyDict),
         internal_parameters |-> Get(build_def, "internalParameters", EmptyDict),
         resolved_dependencies |-> Get(build_def, "resolvedDependencies", <<>>),
         builder |-> Get(run_details, "builder", EmptyDict),
         metadata |-> Get(run_details, "metadata", EmptyDict)]

\* lines 2394-2406: the verification material, when the attestation has any
VerificationFields(attestation) ==
    LET verif_material == Get(attestation, "verification_material", EmptyDict)
        entries == Get(verif_material, "transparency_entries", <<>>)
        counts == [certificate_length |-> Len(Get(verif_material, "certificate", <<>>)),
                   transparency_entries |-> Len(entries)]
    IN  IF verif_material = EmptyDict THEN EmptyDict
        ELSE IF entries = <<>> THEN [verification |-> counts]
        ELSE [verification |->
                WithFields(counts,
                    [log_index |-> Get(entries[1], "logIndex", <<>>),
                     integrated_time |-> Get(entries[1], "integratedTime", <<>>)])]

\* lines 2368-2408: att_info of one attestation, or the exception of its decoding
AttestationInfo(attestation) ==
    LET att_info == [version |-> Get(attestation, "version", 1)]
        envelope == Get(attestation, "envelope", EmptyDict)
        statement == IF "statement" \in DOMAIN envelope
                     THEN DecodeStatement(envelope.statement)
                     ELSE EmptyDict
    IN  IF IsRaised(statement) THEN statement
        ELSE WithFields(
                IF "statement" \in DOMAIN envelope
                THEN WithFields(att_info, StatementFields(statement))
                ELSE att_info,
                VerificationFields(attestation))

\* lines 2367-2408: the loop over a bundle's attestations, from the i-th on;
\* an exception leaves the loop
RECURSIVE AttestationLoop(_, _, _)
AttestationLoop(bundle_info, attestations, i) ==
    IF i > Len(attestations) THEN bundle_info
    ELSE LET att_info == AttestationInfo(attestations[i])
         IN  IF IsRaised(att_info) THEN att_info
             ELSE AttestationLoop(
                    [bundle_info EXCEPT !.attestations = Append(@, att_info)],
                    attestations, i + 1)

\* lines 2361-2410: the loop over the document's bundles, from the i-th on
RECURSIVE BundleLoop(_, _, _)
BundleLoop(result, bundles, i) ==
    IF i > Len(bundles) THEN result
    ELSE LET bundle_info ==
                AttestationLoop(
                    [publisher |-> Get(bundles[i], "publisher", EmptyDict),
                     attestations |-> <<>>],
                    Get(bundles[i], "attestations", <<>>), 1)
         IN  IF IsRaised(bundle_info) THEN bundle_info
             ELSE BundleLoop([result EXCEPT !.bundles = Append(@, bundle_info)],
                             bundles, i + 1)

parse_provenance_data(provenance_data) ==
    BundleLoop([version |-> Get(provenance_data, "version", 1), bundles |-> <<>>],
               Get(provenance_data, "attestation_bundles", <<>>), 1)

(***************************************************************************)
(* The provenance documents the model fetches.                             *)
(***************************************************************************)
FullStatement ==
    [subject |-> <<"flask-3.1.2-py3-none-any.whl">>,
     predicate |->
        [buildDefinition |->
            [buildType |-> <<"https://slsa.dev/build">>,
             externalParameters |-> [workflow |-> <<"release">>],
             internalParameters |-> [runner |-> <<"hosted">>],
             resolvedDependencies |-> <<"git+https://github.com/pallets/flask">>],
         runDetails |->
            [builder |-> [id |-> <<"builder">>],
             metadata |-> [invocationId |-> <<"1">>]]]]

GoodStatement == Base64Of(JsonOf(FullStatement))

MinimalStatement == Base64Of(JsonOf(EmptyDict))

NotBase64 == [text |-> "%%%"]

NotJson == Base64Of([text |-> "not json"])

FullMaterial ==
    [certificate |-> <<"c", "e", "r", "t">>,
     transparency_entries |-> << [logIndex |-> <<"42">>, integratedTime |-> <<"1700">>] >>]

AttestationUniverse ==
    { [version |-> 1, envelope |-> [statement |-> GoodStatement],
       verification_material |-> FullMaterial],
      [envelope |-> [statement |-> GoodStatement]],
      [envelope |-> [statement |-> MinimalStatement]],
      [envelope |-> [statement |-> NotBase64]],
      [envelope |-> [statement |-> NotJson]],
      [envelope |-> [signature |-> <<"sig">>]],
      [version |-> 2],
      [verification_material |-> [certificate |-> <<"c", "e", "r", "t">>]],
      [verification_material |-> [transparency_entries |-> << [logIndex |-> <<"42">>] >>]],
      [verification_material |-> FullMaterial] }

Publishers ==
    { [kind |-> <<"GitHub">>, issuer |-> <<"https://issuer.", "enforce.dev">>],
      [kind |-> <<"GitHub">>, issuer |-> <<"https://token.actions.githubusercontent.com">>],
      [kind |-> <<"Other">>] }

AttestationBundles ==
    { [attestations |-> l] : l \in ListsUpTo(AttestationUniverse, MaxAttestations) }
    \cup { [publisher |-> q, attestations |-> l] :
            q \in Publishers, l \in ListsUpTo(AttestationUniverse, 1) }
    \cup { [publisher |-> q] : q \in Publishers }

ProvenanceDocuments ==
    { [version |-> 1, attestation_bundles |-> <<b>>] : b \in AttestationBundles }
    \cup { [attestation_bundles |-> <<a, b>>] :
            a \in { [publisher |-> q] : q \in Publishers },
            b \in { [attestations |-> <<x>>] : x \in AttestationUniverse } }
    \cup { [version |-> 1], [attestation_bundles |-> <<>>] }

(***************************************************************************)
(* get_parsed_provenance_handler: one request, from the wheel lookup to    *)
(* the response.  curl is "none" before it is spawned, then "running", and *)
(* "exited" once it has ended.                                             *)
(***************************************************************************)
NoResponse == [status |-> 0]

\* web.json_response(body, status=status)
json_response(body, status) == [status |-> status, body |-> body]

ProvenanceUrl == <<"https://libraries.cgr.dev/python/integrity/", "flask", "/provenance">>

InitProv ==
    /\ pv = [phase |-> "request", curl |-> "none", stdout |-> [text |-> ""],
             response |-> NoResponse]
    /\ cv = Idle
    /\ wh = Idle
    /\ hs = Idle
    /\ rt = Idle
    /\ app = Idle
    /\ sb = Idle
    /\ pep = Idle

ProvRespond(status, body) ==
    pv' = [pv EXCEPT !.phase = "done", !.response = [status |-> status, body |-> body]]

\* lines 2279-2282: no wheel matches the pattern
ProvWheelNotFound ==
    /\ pv.phase = "request"
    /\ ProvRespond(404, [error |-> "Wheel file not found"])
    /\ UNCHANGED <<cv, wh, hs, rt, app, sb, pep>>

\* lines 2311-2314: .netrc holds no login and password for the host
ProvNoCredentials ==
    /\ pv.phase = "request"
    /\ ProvRespond(401, [error |-> "No credentials found in .netrc for libraries.cgr.dev"])
    /\ UNCHANGED <<cv, wh, hs, rt, app, sb, pep>>

\* lines 2317-2321: curl is spawned
ProvSpawn ==
    /\ pv.phase = "request"
    /\ pv' = [pv EXCEPT !.phase = "fetching", !.curl = "running"]
    /\ UNCHANGED <<cv, wh, hs, rt, app, sb, pep>>

\* lines 2317-2321, 2348-2351: curl cannot be spawned
ProvSpawnError ==
    /\ pv.phase = "request"
    /\ ProvRespond(500, [error |-> "str(e)"])
    /\ UNCHANGED <<cv, wh, hs, rt, app, sb, pep>>

\* lines 2322, 2344-2347: wait_for gives up after 10 seconds
ProvTimeout ==
    /\ pv.phase = "fetching"
    /\ ProvRespond(500, [error |-> "Timeout fetching provenance"])
    /\ UNCHANGED <<cv, wh, hs, rt, app, sb, pep>>

\* lines 2324-2327: curl ends with an error or without output
ProvFetchFailed ==
    /\ pv.phase = "fetching"
    /\ pv' = [pv EXCEPT !.phase = "done", !.curl = "exited",
                        !.response = [status |-> 500,
                                      body |-> [error |-> "Failed to fetch provenance from libraries.cgr.dev"]]]
    /\ UNCHANGED <<cv, wh, hs, rt, app, sb, pep>>

\* lines 2330-2335: curl's output is not JSON
ProvInvalidJson ==
    /\ pv.phase = "fetching"
    /\ LET stdout == [text |-> "<html>"]
       IN  /\ IsRaised(json_loads(stdout))
           /\ pv' = [pv EXCEPT !.phase = "done", !.curl = "exited", !.stdout = stdout,
                               !.response = [status |-> 500,
                                             body |-> [error |-> "Invalid provenance data received"]]]
    /\ UNCHANGED <<cv, wh, hs, rt, app, sb, pep>>

\* lines 2337-2351: the document is parsed and returned, or the exception of
\* the parsing is caught and answered with status 500
ProvParsed ==
    /\ pv.phase = "fetching"
    /\ \E d \in ProvenanceDocuments :
        LET stdout == JsonOf(d)
            parsed_result == parse_provenance_data(json_loads(stdout))
        IN  pv' = [pv EXCEPT
                    !.phase = "done", !.curl = "exited", !.stdout = stdout,
                    !.response =
                        IF IsRaised(parsed_result)
                        THEN [status |-> 500, body |-> [error |-> parsed_result.raised]]
                        ELSE [status |-> 200,
                              body |-> WithFields(parsed_result,
                                        [provenance_url |-> ProvenanceUrl,
                                         wheel_filename |-> WheelName])]]
    /\ UNCHANGED <<cv, wh, hs, rt, app, sb, pep>>

NextProv ==
    \/ ProvWheelNotFound
    \/ ProvNoCredentials
    \/ ProvSpawn
    \/ ProvSpawnError
    \/ ProvTimeout
    \/ ProvFetchFailed
    \/ ProvInvalidJson
    \/ ProvParsed

SpecProv == InitProv /\ [][NextProv]_vars

(***************************************************************************)
(* Properties of parse_provenance_data.                                    *)
(***************************************************************************)
Malformed(attestation) ==
    /\ "envelope" \in DOMAIN attestation
    /\ "statement" \in DOMAIN attestation.envelope
    /\ IsRaised(DecodeStatement(attestation.envelope.statement))

WellFormed(attestation) ==
    /\ "envelope" \in DOMAIN attestation
    /\ "statement" \in DOMAIN attestation.envelope
    /\ ~IsRaised(DecodeStatement(attestation.envelope.statement))

\* the document fetched holds one bundle of two attestations, one of them
\* well-formed and the other one malformed
OneGoodOneBad(p) ==
    /\ p.phase = "done"
    /\ "json" \in DOMAIN p.stdout
    /\ Len(Get(p.stdout.json, "attestation_bundles", <<>>)) = 1
    /\ LET atts == Get(p.stdout.json.attestation_bundles[1], "attestations", <<>>)
       IN  /\ Len(atts) = 2
           /\ \E i, j \in 1..2 : i # j /\ WellFormed(atts[i]) /\ Malformed(atts[j])

\* C3: a bundle with one well-formed attestation and one whose statement is
\* not base64 (or not JSON once decoded) yields a result holding the one
\* decoded attestation and a skip count of one; the operation does not fail.
C3_MalformedSkipped ==
    OneGoodOneBad(pv) =>
        /\ pv.response.status = 200
        /\ "error" \notin DOMAIN pv.response.body
        /\ Len(pv.response.body.bundles) = 1
        /\ Len(pv.response.body.bundles[1].attestations) = 1
        /\ "subject" \in DOMAIN pv.response.body.bundles[1].attestations[1]
        /\ Get(pv.response.body, "skipped", 0) = 1

\* a key missing from a part of the document leaves the field out of the output
AbsentWhenMissing(part, key, out, field) ==
    key \notin DOMAIN part => field \notin DOMAIN out

\* the fields of att_info that come from the statement and from the first
\* transparency entry of an attestation are absent when their source is
MissingIsAbsent(attestation, att_info) ==
    LET envelope == Get(attestation, "envelope", EmptyDict)
        statement == IF "statement" \in DOMAIN envelope
                     THEN DecodeStatement(envelope.statement)
                     ELSE EmptyDict
        predicate == Get(statement, "predicate", EmptyDict)
        build_def == Get(predicate, "buildDefinition", EmptyDict)
        run_details == Get(predicate, "runDetails", EmptyDict)
        entries == Get(Get(attestation, "verification_material", EmptyDict),
                       "transparency_entries", <<>>)
        entry == IF entries = <<>> THEN EmptyDict ELSE entries[1]
        verification == Get(att_info, "verification", EmptyDict)
    IN  /\ AbsentWhenMissing(statement, "subject", att_info, "subject")
        /\ AbsentWhenMissing(build_def, "buildType", att_info, "build_type")
        /\ AbsentWhenMissing(build_def, "externalParameters", att_info, "external_parameters")
        /\ AbsentWhenMissing(build_def, "internalParameters", att_info, "internal_parameters")
        /\ AbsentWhenMissing(build_def, "resolvedDependencies", att_info, "resolved_dependencies")
        /\ AbsentWhenMissing(run_details, "builder", att_info, "builder")
        /\ AbsentWhenMissing(run_details, "metadata", att_info, "metadata")
        /\ AbsentWhenMissing(entry, "logIndex", verification, "log_index")
        /\ AbsentWhenMissing(entry, "integratedTime", verification, "integrated_time")

\* C19: in the parsed provenance a publisher, subject, build type, external
\* or internal parameters, resolved dependencies, builder, metadata, log
\* index or integrated time that the document does not hold is an absent
\* field of the output, never an empty string, map or list.
C19_MissingIsAbsent ==
    (pv.phase = "done" /\ pv.response.status = 200) =>
        LET bundles == Get(pv.stdout.json, "attestation_bundles", <<>>)
            out == pv.response.body.bundles
        IN  \A i \in DOMAIN bundles :
                /\ AbsentWhenMissing(bundles[i], "publisher", out[i], "publisher")
                /\ LET attestations == Get(bundles[i], "attestations", <<>>)
                   IN  \A j \in DOMAIN attestations :
                           MissingIsAbsent(attestations[j], out[i].attestations[j])

(***************************************************************************)
(* get_pep740_attestations_handler: one request, from the wheel lookup to  *)
(* the response with the Chainguard-origin flag.  Every response has       *)
(* status 200; a failure is told by has_attestations being False.          *)
(***************************************************************************)
\* the most bundles in one fetched document
MaxBundles == 2

\* str.replace(old, new), on separators that are tokens of their own
replace(text, old, new) == [i \in DOMAIN text |-> IF text[i] = old THEN new ELSE text[i]]

\* str.lower(), on the runs of characters the issuers below are made of
lowerMut(text) == text

lower(text) ==
    [i \in DOMAIN text |->
        CASE text[i] = "Enforce.Dev" -> "enforce.dev"
          [] text[i] = "CHAINGUARD" -> "chainguard"
          [] text[i] = "HTTPS://Issuer." -> "https://issuer."
          [] OTHER -> text[i]]

\* line 2243: 'chainguard' in issuer.lower() or 'enforce.dev' in issuer.lower()
IsTrustedIssuer(issuer) ==
    \/ Contains(lower(issuer), <<"chainguard">>)
    \/ Contains(lower(issuer), <<"enforce.dev">>)

\* lines 2238-2243: the loop over the bundles, from the i-th on.  The right
\* side of "is_chainguard or ..." is evaluated only while the flag is False,
\* and an issuer that is not a string has no lower().
RECURSIVE ChainguardLoop(_, _, _)
ChainguardLoop(found, bundles, i) ==
    IF i > Len(bundles) THEN found
    ELSE IF "publisher" \notin DOMAIN bundles[i]
    THEN ChainguardLoop(found, bundles, i + 1)
    ELSE LET publisher == bundles[i].publisher
             seen == [found EXCEPT !.publisher_info = publisher]
         IN  IF "issuer" \notin DOMAIN publisher \/ found.is_chainguard
             THEN ChainguardLoop(seen, bundles, i + 1)
             ELSE IF publisher.issuer = None
             THEN Raised("'NoneType' object has no attribute 'lower'")
             ELSE ChainguardLoop(
                    [seen EXCEPT !.is_chainguard = IsTrustedIssuer(publisher.issuer)],
                    bundles, i + 1)

\* lines 2232-2243
IsChainguard(attestation_data) ==
    ChainguardLoop([is_chainguard |-> FALSE, publisher_info |-> EmptyDict],
                   Get(attestation_data, "attestation_bundles", <<>>), 1)

PackageNames ==
    { <<"flask">>, <<"typing", "-", "extensions">>, <<"typing", "_", "extensions">> }

\* lines 2164-2175: the wheel file the pattern finds
Pep740WheelFilename(package_name) ==
    replace(package_name, "-", "_") \o <<"-", "3.1.2", "-", "py3", "-", "none", "-", "any", ".whl">>

\* lines 2177-2182
Pep740ProvenanceUrl(package_name) ==
    <<"https://libraries.cgr.dev/python/integrity/">> \o replace(package_name, "_", "-")
        \o <<"/", "3.1.2", "/">> \o Pep740WheelFilename(package_name) \o <<"/provenance">>

Issuers ==
    { <<"https://issuer.", "enforce.dev">>,
      <<"HTTPS://Issuer.", "Enforce.Dev">>,
      <<"https://", "CHAINGUARD", ".example">>,
      <<"https://token.actions.githubusercontent.com">>,
      None }

Pep740Bundles ==
    { [publisher |-> [kind |-> <<"GitHub">>, issuer |-> x]] : x \in Issuers }
    \cup { [publisher |-> [kind |-> <<"chainguard">>,
                           issuer |-> <<"https://token.actions.githubusercontent.com">>]],
           [publisher |-> [kind |-> <<"chainguard">>, repository |-> <<"enforce.dev">>]],
           [attestations |-> << [envelope |-> [signature |-> <<"chainguard">>]] >>] }

Pep740Documents ==
    { [attestation_bundles |-> l] : l \in ListsUpTo(Pep740Bundles, MaxBundles) }
    \cup { [version |-> 1] }

InitPep740 ==
    /\ pep \in { [phase |-> "request", package_name |-> n, curl |-> "none",
                  stdout |-> [text |-> ""], response |-> NoResponse] :
                    n \in PackageNames }
    /\ cv = Idle
    /\ wh = Idle
    /\ hs = Idle
    /\ pv = Idle
    /\ rt = Idle
    /\ app = Idle
    /\ sb = Idle

\* a response that tells a failure
Pep740Failure(error) == json_response([has_attestations |-> FALSE, error |-> error], 200)

\* lines 2168-2173: no wheel matches the pattern
Pep740WheelNotFound ==
    /\ pep.phase = "request"
    /\ pep' = [pep EXCEPT !.phase = "done",
                          !.response = Pep740Failure(<<"Wheel file not found for ">>
                                            \o pep.package_name \o <<" ", "3.1.2">>)]
    /\ UNCHANGED <<cv, wh, hs, pv, rt, app, sb>>

\* lines 2186-2208: .netrc holds no login and password for the host
Pep740NoCredentials ==
    /\ pep.phase = "request"
    /\ pep' = [pep EXCEPT !.phase = "done",
                          !.response = Pep740Failure(
                                <<"No credentials found in .netrc for libraries.cgr.dev">>)]
    /\ UNCHANGED <<cv, wh, hs, pv, rt, app, sb>>

\* lines 2211-2215: curl is spawned
Pep740Spawn ==
    /\ pep.phase = "request"
    /\ pep' = [pep EXCEPT !.phase = "fetching", !.curl = "running"]
    /\ UNCHANGED <<cv, wh, hs, pv, rt, app, sb>>

\* lines 2211-2215, 2259-2263: curl cannot be spawned
Pep740SpawnError ==
    /\ pep.phase = "request"
    /\ pep' = [pep EXCEPT !.phase = "done",
                          !.response = Pep740Failure(<<"[Errno 2] No such file or directory: 'curl'">>)]
    /\ UNCHANGED <<cv, wh, hs, pv, rt, app, sb>>

\* lines 2216, 2254-2258: wait_for gives up after 10 seconds
Pep740Timeout ==
    /\ pep.phase = "fetching"
    /\ pep' = [pep EXCEPT !.phase = "done",
                          !.response = Pep740Failure(<<"Timeout fetching provenance">>)]
    /\ UNCHANGED <<cv, wh, hs, pv, rt, app, sb>>

\* lines 2218-2222: curl ends with an error or without output
Pep740FetchFailed ==
    /\ pep.phase = "fetching"
    /\ pep' = [pep EXCEPT !.phase = "done", !.curl = "exited",
                          !.response = Pep740Failure(
                                <<"Failed to fetch provenance from libraries.cgr.dev">>)]
    /\ UNCHANGED <<cv, wh, hs, pv, rt, app, sb>>

\* lines 2225-2231: curl's output is not JSON
Pep740InvalidJson ==
    /\ pep.phase = "fetching"
    /\ LET stdout == [text |-> "<html>"]
       IN  /\ IsRaised(json_loads(stdout))
           /\ pep' = [pep EXCEPT !.phase = "done", !.curl = "exited", !.stdout = stdout,
                                 !.response = Pep740Failure(<<"Invalid provenance data received">>)]
    /\ UNCHANGED <<cv, wh, hs, pv, rt, app, sb>>

\* lines 2225-2263: the document is read and the flag returned, or the
\* exception of the loop is caught and told as a failure
Pep740Respond ==
    /\ pep.phase = "fetching"
    /\ \E d \in Pep740Documents :
        LET stdout == JsonOf(d)
            attestation_data == json_loads(stdout)
            found == IsChainguard(attestation_data)
        IN  pep' = [pep EXCEPT
                      !.phase = "done", !.curl = "exited", !.stdout = stdout,
                      !.response =
                        IF IsRaised(found) THEN Pep740Failure(<<found.raised>>)
                        ELSE json_response(
                               [has_attestations |-> TRUE,
                                is_chainguard |-> found.is_chainguard,
                                publisher |-> found.publisher_info,
                                provenance_url |-> Pep740ProvenanceUrl(pep.package_name),
                                wheel_filename |-> Pep740WheelFilename(pep.package_name),
                                attestation_count |->
                                    Len(Get(attestation_data, "attestation_bundles", <<>>))],
                               200)]
    /\ UNCHANGED <<cv, wh, hs, pv, rt, app, sb>>

NextPep740 ==
    \/ Pep740WheelNotFound
    \/ Pep740NoCredentials
    \/ Pep740Spawn
    \/ Pep740SpawnError
    \/ Pep740Timeout
    \/ Pep740FetchFailed
    \/ Pep740InvalidJson
    \/ Pep740Respond

SpecPep740 == InitPep740 /\ [][NextPep740]_vars

(***************************************************************************)
(* Properties of get_pep740_attestations_handler.                          *)
(***************************************************************************)
\* the spellings of the trusted substrings among the runs of characters
TrustedSpellings == {"chainguard", "CHAINGUARD", "enforce.dev", "Enforce.Dev"}

\* a bundle whose publisher has an issuer, a text, holding a trusted substring
HasTrustedIssuer(bundle) ==
    /\ "publisher" \in DOMAIN bundle
    /\ "issuer" \in DOMAIN bundle.publisher
    /\ bundle.publisher.issuer # None
    /\ \E k \in DOMAIN bundle.publisher.issuer :
            bundle.publisher.issuer[k] \in TrustedSpellings

\* C20: the flag is_chainguard of a response is true exactly when some bundle
\* of the fetched document has a publisher issuer that holds "chainguard" or
\* "enforce.dev" in any letter case; nothing else in the document counts.
C20_FlagFromIssuers ==
    (pep.phase = "done" /\ "is_chainguard" \in DOMAIN pep.response.body) =>
        LET bundles == Get(pep.stdout.json, "attestation_bundles", <<>>)
        IN  pep.response.body.is_chainguard
                <=> \E i \in DOMAIN bundles : HasTrustedIssuer(bundles[i])

\* the flag is true for a document whose first bundle names the trusted text
\* outside the issuer and whose second bundle has an upper-case issuer
C20_Witness ==
    /\ pep.phase = "done"
    /\ "is_chainguard" \in DOMAIN pep.response.body
    /\ pep.response.body.is_chainguard
    /\ pep.stdout.json.attestation_bundles =
            << [publisher |-> [kind |-> <<"chainguard">>, repository |-> <<"enforce.dev">>]],
               [publisher |-> [kind |-> <<"GitHub">>,
                               issuer |-> <<"HTTPS://Issuer.", "Enforce.Dev">>]] >>

(***************************************************************************)
(* resolve_tag_to_commit: clone, fetch of the tag, rev-list, each in a     *)
(* child process awaited with a timeout.  A call runs from one await to    *)
(* the next in one step; several calls interleave at the awaits.           *)
(*                                                                         *)
(* A call's record:                                                        *)
(*   pc        "idle", "clone", "fetch", "revlist" (awaiting that child)   *)
(*             or "done"                                                   *)
(*   temp_dir  0 for None, else the directory mkdtemp returned             *)
(*   failed    the kinds of failure met so far: "spawn_error", "timeout",  *)
(*             "exit_nonzero", "empty_output"                              *)
(*   rmtree    how the removal of temp_dir ended: "not_run", "ok",         *)
(*             "failed"                                                    *)
(*   child     the children spawned and not yet ended                      *)
(*   stdout    what git rev-list printed                                   *)
(*   result    the value returned                                          *)
(* rt.dirs maps each existing temporary directory to its git state.        *)
(***************************************************************************)
Calls == 1..MaxCalls

ObjectId(c) == <<"tagobject", ToString(c)>>

CommitSha == <<"c0ffee">>

\* str.strip()
RECURSIVE Strip(_)
Strip(s) ==
    IF s = <<>> THEN s
    ELSE IF s[1] \in {" ", "\n"} THEN Strip(Drop(s, 1))
    ELSE IF s[Len(s)] \in {" ", "\n"} THEN Strip(Take(s, Len(s) - 1))
    ELSE s

InitResolve ==
    /\ rt = [phase |-> "running",
             dirs |-> EmptyDict,
             calls |-> [c \in Calls |->
                          [pc |-> "idle", temp_dir |-> 0, failed |-> {}, rmtree |-> "not_run",
                           child |-> {}, stdout |-> <<>>, result |-> None]]]
    /\ cv = Idle
    /\ wh = Idle
    /\ hs = Idle
    /\ pv = Idle
    /\ app = Idle
    /\ sb = Idle
    /\ pep = Idle

\* lines 168-174: the finally clause; rmtree's own failure is swallowed
RemoveTempDirMut(dirs, temp_dir, rmtree_ok) == dirs

RemoveTempDir(dirs, temp_dir, rmtree_ok) ==
    IF temp_dir # 0 /\ temp_dir \in DOMAIN dirs /\ rmtree_ok
    THEN [d \in DOMAIN dirs \ {temp_dir} |-> dirs[d]]
    ELSE dirs

\* lines 168-174: how the finally clause ended for a call
Rmtree(call, rmtree_ok) ==
    IF call.temp_dir = 0 THEN "not_run" ELSE IF rmtree_ok THEN "ok" ELSE "failed"

\* lines 164-174: an exception is caught, object_id is returned and the
\* directory is removed; a child still running is left as it is
ResolveExcept(r, c, how, rmtree_ok) ==
    [r EXCEPT
        !.calls[c] = [@ EXCEPT !.pc = "done", !.failed = @ \cup {how},
                              !.rmtree = Rmtree(r.calls[c], rmtree_ok),
                              !.result = ObjectId(c)],
        !.dirs = RemoveTempDir(@, r.calls[c].temp_dir, rmtree_ok)]

\* line 133: tempfile.mkdtemp makes a directory that does not exist yet
FreshDirMut(dirs) == 1

FreshDir(dirs) == CHOOSE d \in 1..(MaxCalls + 1) : d \notin DOMAIN dirs

Mkdtemp(r, c) ==
    [r EXCEPT !.dirs = DictPut(@, FreshDir(r.dirs), [repo |-> FALSE, tag |-> FALSE]),
              !.calls[c].temp_dir = FreshDir(r.dirs)]

\* git clone ends: a clone that succeeds brings the repository and the tags
\* the remote has
CloneEnds(r, c, ok, has_tag) ==
    [r EXCEPT
        !.dirs[r.calls[c].temp_dir] = IF ok THEN [repo |-> TRUE, tag |-> has_tag] ELSE @,
        !.calls[c] = [@ EXCEPT !.failed = IF ok THEN @ ELSE @ \cup {"exit_nonzero"},
                              !.child = @ \ {"clone"}]]

\* git fetch ends: it succeeds only in a repository, and brings the tag
FetchEnds(r, c, ok) ==
    [r EXCEPT
        !.dirs[r.calls[c].temp_dir] = IF ok THEN [@ EXCEPT !.tag = TRUE] ELSE @,
        !.calls[c] = [@ EXCEPT !.failed = IF ok THEN @ ELSE @ \cup {"exit_nonzero"},
                              !.child = @ \ {"fetch"}]]

\* what git rev-list -n 1 refs/tags/<tag> prints in a directory
RevListOutputs(dir) ==
    IF dir.repo /\ dir.tag
    THEN { [failed |-> {}, stdout |-> CommitSha \o <<"\n">>],
           [failed |-> {}, stdout |-> <<"warning:", " ", "c0ffee", "\n">>],
           [failed |-> {"empty_output"}, stdout |-> <<"\n">>] }
    ELSE { [failed |-> {"exit_nonzero", "empty_output"}, stdout |-> <<>>] }

\* lines 161-162
ResolveResult(stdout, object_id) ==
    LET commit_sha == Strip(stdout)
    IN  IF commit_sha # <<>> THEN commit_sha ELSE object_id

\* line 133: mkdtemp raises
ResolveMkdtempError(c) ==
    /\ rt.calls[c].pc = "idle"
    /\ rt' = ResolveExcept(rt, c, "spawn_error", TRUE)
    /\ UNCHANGED <<cv, wh, hs, pv, app, sb, pep>>

\* lines 133-140: the directory is made and git clone is spawned
ResolveStart(c) ==
    /\ rt.calls[c].pc = "idle"
    /\ rt' = [Mkdtemp(rt, c) EXCEPT !.calls[c].pc = "clone", !.calls[c].child = {"clone"}]
    /\ UNCHANGED <<cv, wh, hs, pv, app, sb, pep>>

\* lines 133-140: the directory is made and git clone cannot be spawned
ResolveCloneSpawnError(c) ==
    /\ rt.calls[c].pc = "idle"
    /\ \E rmtree_ok \in BOOLEAN :
        rt' = ResolveExcept(Mkdtemp(rt, c), c, "spawn_error", rmtree_ok)
    /\ UNCHANGED <<cv, wh, hs, pv, app, sb, pep>>

\* line 141: wait_for gives up after 30 seconds
ResolveCloneTimeout(c) ==
    /\ rt.calls[c].pc = "clone"
    /\ \E rmtree_ok \in BOOLEAN : rt' = ResolveExcept(rt, c, "timeout", rmtree_ok)
    /\ UNCHANGED <<cv, wh, hs, pv, app, sb, pep>>

\* lines 141-149: git clone ends, its exit status is not read, and git fetch
\* is spawned
ResolveCloneDone(c) ==
    /\ rt.calls[c].pc = "clone"
    /\ \E ok, has_tag \in BOOLEAN :
        /\ ~ok => ~has_tag
        /\ rt' = [CloneEnds(rt, c, ok, has_tag) EXCEPT
                    !.calls[c].pc = "fetch", !.calls[c].child = {"fetch"}]
    /\ UNCHANGED <<cv, wh, hs, pv, app, sb, pep>>

\* lines 141-149: git clone ends and git fetch cannot be spawned
ResolveFetchSpawnError(c) ==
    /\ rt.calls[c].pc = "clone"
    /\ \E ok, rmtree_ok \in BOOLEAN :
        rt' = ResolveExcept(CloneEnds(rt, c, ok, FALSE), c, "spawn_error", rmtree_ok)
    /\ UNCHANGED <<cv, wh, hs, pv, app, sb, pep>>

\* line 150: wait_for gives up after 30 seconds
ResolveFetchTimeout(c) ==
    /\ rt.calls[c].pc = "fetch"
    /\ \E rmtree_ok \in BOOLEAN : rt' = ResolveExcept(rt, c, "timeout", rmtree_ok)
    /\ UNCHANGED <<cv, wh, hs, pv, app, sb, pep>>

\* lines 150-158: git fetch ends, its exit status is not read, and git
\* rev-list is spawned
ResolveFetchDone(c) ==
    /\ rt.calls[c].pc = "fetch"
    /\ \E ok \in BOOLEAN :
        /\ ok => rt.dirs[rt.calls[c].temp_dir].repo
        /\ rt' = [FetchEnds(rt, c, ok) EXCEPT
                    !.calls[c].pc = "revlist", !.calls[c].child = {"revlist"}]
    /\ UNCHANGED <<cv, wh, hs, pv, app, sb, pep>>

\* lines 150-158: git fetch ends and git rev-list cannot be spawned
ResolveRevListSpawnError(c) ==
    /\ rt.calls[c].pc = "fetch"
    /\ \E ok, rmtree_ok \in BOOLEAN :
        /\ ok => rt.dirs[rt.calls[c].temp_dir].repo
        /\ rt' = ResolveExcept(FetchEnds(rt, c, ok), c, "spawn_error", rmtree_ok)
    /\ UNCHANGED <<cv, wh, hs, pv, app, sb, pep>>

\* line 159: wait_for gives up after 10 seconds
ResolveRevListTimeout(c) ==
    /\ rt.calls[c].pc = "revlist"
    /\ \E rmtree_ok \in BOOLEAN : rt' = ResolveExcept(rt, c, "timeout", rmtree_ok)
    /\ UNCHANGED <<cv, wh, hs, pv, app, sb, pep>>

\* lines 159-174: git rev-list ends, the value is returned and the directory
\* is removed
ResolveRevListDone(c) ==
    /\ rt.calls[c].pc = "revlist"
    /\ LET call == rt.calls[c]
       IN  \E out \in RevListOutputs(rt.dirs[call.temp_dir]), rmtree_ok \in BOOLEAN :
            rt' = [rt EXCEPT
                    !.calls[c] = [@ EXCEPT !.pc = "done",
                                          !.failed = @ \cup out.failed,
                                          !.rmtree = Rmtree(call, rmtree_ok),
                                          !.child = {}, !.stdout = out.stdout,
                                          !.result = ResolveResult(out.stdout, ObjectId(c))],
                    !.dirs = RemoveTempDir(@, call.temp_dir, rmtree_ok)]
    /\ UNCHANGED <<cv, wh, hs, pv, app, sb, pep>>

NextResolve ==
    \E c \in Calls :
        \/ ResolveMkdtempError(c)
        \/ ResolveStart(c)
        \/ ResolveCloneSpawnError(c)
        \/ ResolveCloneTimeout(c)
        \/ ResolveCloneDone(c)
        \/ ResolveFetchSpawnError(c)
        \/ ResolveFetchTimeout(c)
        \/ ResolveFetchDone(c)
        \/ ResolveRevListSpawnError(c)
        \/ ResolveRevListTimeout(c)
        \/ ResolveRevListDone(c)

SpecResolve == InitResolve /\ [][NextResolve]_vars

\* C14: when a call returns, by whatever path, the directory it made does
\* not exist, unless rmtree failed; and it returns a value all the same.
C14_TempDirRemoved ==
    [][\A c \in Calls :
        (rt.calls[c].pc # "done" /\ rt'.calls[c].pc = "done") =>
            /\ \/ rt'.calls[c].temp_dir = 0
               \/ rt'.calls[c].temp_dir \notin DOMAIN rt'.dirs
               \/ rt'.calls[c].rmtree = "failed"
            /\ rt'.calls[c].result # None]_vars

\* one call has returned after a timeout with its directory removed, another
\* has returned the commit although rmtree failed and its directory is left
C14_Witness ==
    \E c1, c2 \in Calls :
        /\ rt.calls[c1].pc = "done"
        /\ "timeout" \in rt.calls[c1].failed
        /\ rt.calls[c1].rmtree = "ok"
        /\ rt.calls[c1].temp_dir \notin DOMAIN rt.dirs
        /\ rt.calls[c2].pc = "done"
        /\ rt.calls[c2].rmtree = "failed"
        /\ rt.calls[c2].temp_dir \in DOMAIN rt.dirs
        /\ rt.calls[c2].result = CommitSha

\* a call between mkdtemp and its return
Running(call) == call.pc \in {"clone", "fetch", "revlist"}

\* C21: whatever the interleaving of the calls, a running call has a directory
\* of its own, which exists and which no step of another call changes or
\* removes, and a call returns a commit only from what its own directory
\* holds, as it would alone.
C21_OwnDirectory ==
    [][\A c \in Calls :
        Running(rt.calls[c]) =>
            /\ \A d \in Calls \ {c} :
                    Running(rt.calls[d]) => rt.calls[d].temp_dir # rt.calls[c].temp_dir
            /\ rt.calls[c].temp_dir \in DOMAIN rt.dirs
            /\ rt'.calls[c] = rt.calls[c] =>
                    /\ rt.calls[c].temp_dir \in DOMAIN rt'.dirs
                    /\ rt'.dirs[rt.calls[c].temp_dir] = rt.dirs[rt.calls[c].temp_dir]
            /\ (rt'.calls[c].pc = "done" /\ rt'.calls[c].result # ObjectId(c)) =>
                    rt.dirs[rt.calls[c].temp_dir] = [repo |-> TRUE, tag |-> TRUE]]_vars

\* two calls await git rev-list at once, one in a directory that holds the
\* tag and the other in a directory where the clone failed
C21_Witness ==
    \E c1, c2 \in Calls :
        /\ rt.calls[c1].pc = "revlist" /\ rt.calls[c2].pc = "revlist"
        /\ rt.calls[c1].temp_dir # rt.calls[c2].temp_dir
        /\ rt.dirs[rt.calls[c1].temp_dir] = [repo |-> TRUE, tag |-> TRUE]
        /\ rt.dirs[rt.calls[c2].temp_dir] = [repo |-> FALSE, tag |-> FALSE]

\* C4: a call that has returned after any of its steps failed (spawn error,
\* non-zero exit, timeout or empty output) returned exactly the object_id it
\* was given.
C4_FailureReturnsObjectId ==
    \A c \in Calls :
        (rt.calls[c].pc = "done" /\ rt.calls[c].failed # {}) =>
            rt.calls[c].result = ObjectId(c)

\* C25: whatever git rev-list printed, malformed text included, a call that
\* has returned returned the object_id it was given or a well-formed commit
\* identifier.
C25_ObjectIdOrCommit ==
    \A c \in Calls :
        rt.calls[c].pc = "done" =>
            rt.calls[c].result \in {ObjectId(c), CommitSha}

(***************************************************************************)
(* get_sbom_handler: the SBOM document of a package is read, and for every *)
(* package whose sourceInfo names a repository, a tag and an object id,    *)
(* resolve_tag_to_commit is awaited and its value stored in the package.   *)
(* The handler's resolutions are call 1 of rt, one after the other.        *)
(*                                                                         *)
(* sb.pc  "request", "loop" (between two packages), "resolving" (awaiting  *)
(*        resolve_tag_to_commit for package sb.i), "done"                  *)
(***************************************************************************)
RepoUrls == {"https://github.com/pallets/click"}

\* lines 2451-2459: re.search on sourceInfo: whether it matches, and the
\* three groups
SourceInfoMatch(source_info) ==
    LET g == Find(source_info, <<"git+">>)
        after_git == Drop(source_info, g)
        t == Find(after_git, <<"tag: ">>)
        after_tag == Drop(after_git, t)
        k == Find(after_tag, <<"commit id: ">>)
        after_id == Drop(after_tag, k)
    IN  IF \/ g = 0 \/ after_git = <<>> \/ after_git[1] \notin RepoUrls
           \/ t = 0 \/ after_tag = <<>>
           \/ k = 0 \/ Len(after_id) < 2 \/ after_id[1] # "tagobject"
        THEN [matched |-> FALSE]
        ELSE [matched |-> TRUE,
              repo_url |-> <<after_git[1]>>, tag_name |-> <<after_tag[1]>>,
              object_id |-> Take(after_id, 2)]

\* the packages of the documents: without sourceInfo, with a sourceInfo that
\* names no object id of 40 hexadecimal digits, and with a full one
SbomPackages ==
    { [name |-> <<"click">>],
      [name |-> <<"click">>,
       sourceInfo |-> <<"Build by Chainguard, Inc. from ", "git+",
                        "https://github.com/pallets/click", ", ", "tag: ", "8.3.0",
                        ", ", "commit id: ", "e62de64", ".">>],
      [name |-> <<"click">>,
       sourceInfo |-> <<"Build by Chainguard, Inc. from ", "git+",
                        "https://github.com/pallets/click", ", ", "tag: ", "8.3.0",
                        ", ", "commit id: ">> \o ObjectId(1) \o <<".">>] }

\* what the handler finds on disk
Sboms ==
    { [found |-> FALSE],
      [found |-> TRUE, has_sbom |-> FALSE],
      [found |-> TRUE, has_sbom |-> TRUE, is_json |-> FALSE],
      [found |-> TRUE, has_sbom |-> TRUE, is_json |-> TRUE,
       data |-> [spdxVersion |-> <<"SPDX-2.3">>]] }
    \cup { [found |-> TRUE, has_sbom |-> TRUE, is_json |-> TRUE,
            data |-> [spdxVersion |-> <<"SPDX-2.3">>, packages |-> l]] :
            l \in ListsUpTo(SbomPackages, MaxPackages) }

InitSbom ==
    /\ sb \in { [pc |-> "request", sbom |-> x, sbom_data |-> EmptyDict, i |-> 0,
                 response |-> NoResponse] : x \in Sboms }
    /\ rt = [phase |-> "running",
             dirs |-> EmptyDict,
             calls |-> [c \in Calls |->
                          [pc |-> "unused", temp_dir |-> 0, failed |-> {}, rmtree |-> "not_run",
                           child |-> {}, stdout |-> <<>>, result |-> None]]]
    /\ cv = Idle
    /\ wh = Idle
    /\ hs = Idle
    /\ pv = Idle
    /\ app = Idle
    /\ pep = Idle

\* lines 2444-2460: the next package from the i-th on whose sourceInfo
\* matches, or one past the last
RECURSIVE NextSourceInfo(_, _)
NextSourceInfo(packages, i) ==
    IF i > Len(packages) THEN i
    ELSE IF /\ "sourceInfo" \in DOMAIN packages[i]
            /\ SourceInfoMatch(packages[i].sourceInfo).matched
    THEN i
    ELSE NextSourceInfo(packages, i + 1)

\* lines 2419-2442, 2469-2470: no dist-info directory, no SBOM file, or a
\* file that json.load rejects
SbomUnavailable ==
    /\ sb.pc = "request"
    /\ ~(sb.sbom.found /\ sb.sbom.has_sbom /\ sb.sbom.is_json)
    /\ sb' = [sb EXCEPT
                !.pc = "done",
                !.response =
                    IF ~sb.sbom.found
                    THEN json_response([error |-> <<"Package ", "click", " not found">>], 404)
                    ELSE IF ~sb.sbom.has_sbom
                    THEN json_response([error |-> <<"SBOM not found for ", "click">>], 404)
                    ELSE json_response([error |-> <<"Expecting value">>], 500)]
    /\ UNCHANGED <<cv, wh, hs, pv, rt, app, pep>>

\* lines 2440-2446: the document is read
SbomLoad ==
    /\ sb.pc = "request"
    /\ sb.sbom.found /\ sb.sbom.has_sbom /\ sb.sbom.is_json
    /\ sb' = [sb EXCEPT !.pc = "loop", !.sbom_data = sb.sbom.data, !.i = 1]
    /\ UNCHANGED <<cv, wh, hs, pv, rt, app, pep>>

\* lines 2446-2462: the loop reaches a package whose sourceInfo matches and
\* calls resolve_tag_to_commit
SbomResolve ==
    /\ sb.pc = "loop"
    /\ "packages" \in DOMAIN sb.sbom_data
    /\ NextSourceInfo(sb.sbom_data.packages, sb.i) <= Len(sb.sbom_data.packages)
    /\ sb' = [sb EXCEPT !.pc = "resolving",
                        !.i = NextSourceInfo(sb.sbom_data.packages, sb.i)]
    /\ rt' = [rt EXCEPT !.calls[1] = [pc |-> "idle", temp_dir |-> 0, failed |-> {},
                                     rmtree |-> "not_run",
                                     child |-> {}, stdout |-> <<>>, result |-> None]]
    /\ UNCHANGED <<cv, wh, hs, pv, app, pep>>

\* lines 2462-2465: resolve_tag_to_commit has returned and its value is stored
SbomStore ==
    /\ sb.pc = "resolving"
    /\ rt.calls[1].pc = "done"
    /\ sb' = [sb EXCEPT
                !.pc = "loop",
                !.i = @ + 1,
                !.sbom_data.packages[sb.i] =
                    DictPut(@, "_resolved_commit_sha", rt.calls[1].result)]
    /\ UNCHANGED <<cv, wh, hs, pv, rt, app, pep>>

\* lines 2446-2467: no package is left and the document is returned
SbomRespond ==
    /\ sb.pc = "loop"
    /\ IF "packages" \in DOMAIN sb.sbom_data
       THEN NextSourceInfo(sb.sbom_data.packages, sb.i) > Len(sb.sbom_data.packages)
       ELSE TRUE
    /\ sb' = [sb EXCEPT !.pc = "done", !.response = json_response(sb.sbom_data, 200)]
    /\ UNCHANGED <<cv, wh, hs, pv, rt, app, pep>>

NextSbom ==
    \/ SbomUnavailable
    \/ SbomLoad
    \/ SbomResolve
    \/ SbomStore
    \/ SbomRespond
    \/ NextResolve

SpecSbom == InitSbom /\ [][NextSbom]_vars

\* C12: in the document get_sbom_handler returns, no package carries the
\* object id of its sourceInfo in _resolved_commit_sha: a package whose tag
\* could not be resolved has no resolved commit.
C12_UnresolvedHasNoCommit ==
    (sb.pc = "done" /\ sb.response.status = 200 /\ "packages" \in DOMAIN sb.response.body) =>
        \A i \in DOMAIN sb.response.body.packages :
            LET package == sb.response.body.packages[i]
            IN  "_resolved_commit_sha" \in DOMAIN package =>
                    package["_resolved_commit_sha"] #
                        SourceInfoMatch(package.sourceInfo).object_id

(***************************************************************************)
(* The application: the authentication worker started by on_startup, the   *)
(* handlers chainver_api, chainver_verbose_api and chainver_logs_api, and  *)
(* the two process-wide records auth_state and chainver_logs.              *)
(*                                                                         *)
(* A coroutine runs from one await to the next in one step.  The sections  *)
(* under auth_lock are one step each.  The two assignments under logs_lock *)
(* are two steps with the lock held between them, so that the lock, and    *)
(* not the scheduler, is what keeps a reader and another writer out.       *)
(*                                                                         *)
(* app.worker   pc: "unstarted", "started" (the task is made and has not   *)
(*              run), "checking" (awaiting chainctl auth status),          *)
(*              "login" (reading the login process's output),              *)
(*              "waiting" (awaiting the login process's exit), "done";     *)
(*              check, login: the state of the two children;               *)
(*              logins: the login processes started so far                 *)
(* app.runs[r]  kind: the handler serving request r; pc: "idle", "gate"    *)
(*              (inside the auth_lock section),                            *)
(*              "chainver" (awaiting the verifier), "date" (awaiting       *)
(*              date), "store" (inside the logs_lock section), "done";     *)
(*              child, date_child: the state of the two children;          *)
(*              returncode, stdout, stderr, date_stdout: the handler's     *)
(*              local variables; response: what it returned                *)
(* app.auth_lock  0 when free, else the request holding it; the worker's   *)
(*              sections under auth_lock have no await and are one step    *)
(*              each, taken when the lock is free                          *)
(* app.logs_lock  0 when free, else the request holding it                 *)
(* app.logs_response  the last response of chainver_logs_api               *)
(***************************************************************************)
Runs == 1..MaxRuns

RunIdle ==
    [kind |-> "none", pc |-> "idle", child |-> "none", date_child |-> "none",
     returncode |-> -1, stdout |-> <<>>, stderr |-> <<>>, date_stdout |-> <<>>,
     response |-> NoResponse]

Init ==
    /\ app = [phase |-> "running",
              auth_state |-> [authenticated |-> FALSE, auth_url |-> None,
                              auth_process |-> None, error |-> None],
              chainver_logs |-> [verbose_output |-> <<>>, last_run |-> None],
              auth_lock |-> 0,
              logs_lock |-> 0,
              worker |-> [pc |-> "unstarted", check |-> "none", login |-> "none",
                          logins |-> 0],
              runs |-> [r \in Runs |-> RunIdle],
              logs_response |-> NoResponse]
    /\ cv = Idle
    /\ wh = Idle
    /\ hs = Idle
    /\ pv = Idle
    /\ rt = Idle
    /\ sb = Idle
    /\ pep = Idle

(***************************************************************************)
(* check_auth_status and start_headless_auth                               *)
(***************************************************************************)
LoginUrl == <<"https://", "issuer.enforce.dev/oauth?device=1">>

SpawnErrorText == <<"[Errno 2] No such file or directory">>

\* str(ProcessLookupError()), str(TimeoutError())
NoMessage == <<>>

\* async with auth_lock: the lock can be taken
AuthLockFree(lock) == lock = 0

\* lines 112-114: except Exception as e
AuthExcept(a, message) ==
    [a EXCEPT !.auth_state.error = message, !.worker.pc = "done"]

\* lines 69-74: chainctl auth login --headless is spawned, or cannot be
StartLogin(a, spawn_ok) ==
    IF spawn_ok
    THEN [a EXCEPT !.worker.pc = "login", !.worker.login = "running",
                   !.worker.logins = @ + 1]
    ELSE AuthExcept(a, SpawnErrorText)

\* line 101: the worker returns after the failure to get a URL
AfterNoUrlMut == "waiting"

AfterNoUrl == "done"

\* lines 2590-2593, 115: on_startup makes the worker a task
OnStartup ==
    /\ app.worker.pc = "unstarted"
    /\ app' = [app EXCEPT !.worker.pc = "started"]
    /\ UNCHANGED <<cv, wh, hs, pv, rt, sb, pep>>

\* lines 61, 36-40: the worker spawns chainctl auth status
AuthCheckSpawn ==
    /\ app.worker.pc = "started"
    /\ app' = [app EXCEPT !.worker.pc = "checking", !.worker.check = "running"]
    /\ UNCHANGED <<cv, wh, hs, pv, rt, sb, pep>>

\* lines 36-52, 69-74: chainctl auth status cannot be spawned, and
\* check_auth_status returns False
AuthCheckSpawnError ==
    /\ app.worker.pc = "started"
    /\ \E spawn_ok \in BOOLEAN :
        /\ ~spawn_ok => AuthLockFree(app.auth_lock)
        /\ app' = StartLogin(app, spawn_ok)
    /\ UNCHANGED <<cv, wh, hs, pv, rt, sb, pep>>

\* lines 41-48, 62-66: the status is valid
AuthAlreadyAuthenticated ==
    /\ AuthLockFree(app.auth_lock)
    /\ app.worker.pc = "checking"
    /\ app.worker.check = "running"
    /\ app' = [app EXCEPT !.auth_state.authenticated = TRUE,
                          !.auth_state.auth_url = None,
                          !.worker.pc = "done", !.worker.check = "exited"]
    /\ UNCHANGED <<cv, wh, hs, pv, rt, sb, pep>>

\* lines 41-52, 69-74: the status is not valid, or the 5 seconds pass and
\* the child is left running; the login process is spawned
AuthNotAuthenticated ==
    /\ app.worker.pc = "checking"
    /\ app.worker.check = "running"
    /\ \E timeout, spawn_ok \in BOOLEAN :
        /\ ~spawn_ok => AuthLockFree(app.auth_lock)
        /\ app' = StartLogin(
                    [app EXCEPT !.worker.check = IF timeout THEN "running" ELSE "exited"],
                    spawn_ok)
    /\ UNCHANGED <<cv, wh, hs, pv, rt, sb, pep>>

\* lines 78-96, 104: a line with the URL is read and published
AuthUrlPublished ==
    /\ AuthLockFree(app.auth_lock)
    /\ app.worker.pc = "login"
    /\ app' = [app EXCEPT !.auth_state.auth_url = LoginUrl,
                          !.auth_state.auth_process = <<"<Process chainctl auth login>">>,
                          !.worker.pc = "waiting"]
    /\ UNCHANGED <<cv, wh, hs, pv, rt, sb, pep>>

\* lines 78-82: a line that is not text makes decode raise
AuthOutputUndecodable ==
    /\ AuthLockFree(app.auth_lock)
    /\ app.worker.pc = "login"
    /\ app' = AuthExcept(app, <<"'utf-8' codec can't decode byte">>)
    /\ UNCHANGED <<cv, wh, hs, pv, rt, sb, pep>>

\* lines 79-81, 93-101: the output ends without a URL; the process, which
\* has closed its output, is killed.  kill raises ProcessLookupError when
\* the process has exited and the loop has taken note of it.
AuthNoUrl ==
    /\ AuthLockFree(app.auth_lock)
    /\ app.worker.pc = "login"
    /\ \E exited, kill_raises \in BOOLEAN :
        /\ kill_raises => exited
        /\ LET failed == [app EXCEPT
                            !.auth_state.error = <<"Failed to get authentication URL">>,
                            !.worker.login = IF exited THEN "exited" ELSE "killed",
                            !.worker.pc = AfterNoUrl]
           IN  app' = IF kill_raises THEN AuthExcept(failed, NoMessage) ELSE failed
    /\ UNCHANGED <<cv, wh, hs, pv, rt, sb, pep>>

\* lines 104-110: the login process exits
AuthLoginExit ==
    /\ AuthLockFree(app.auth_lock)
    /\ app.worker.pc = "waiting"
    /\ \E returncode \in {0, 1} :
        /\ app.worker.login = "killed" => returncode # 0
        /\ app' = [app EXCEPT
                    !.auth_state =
                        [IF returncode = 0
                         THEN [@ EXCEPT !.authenticated = TRUE, !.auth_url = None]
                         ELSE [@ EXCEPT !.error = <<"Authentication failed">>]
                         EXCEPT !.auth_process = None],
                    !.worker.pc = "done",
                    !.worker.login = IF @ = "running" THEN "exited" ELSE @]
    /\ UNCHANGED <<cv, wh, hs, pv, rt, sb, pep>>

(***************************************************************************)
(* chainver_api with get_chainver_results, chainver_verbose_api and        *)
(* chainver_logs_api                                                       *)
(***************************************************************************)
\* lines 2055 and 2082: if not auth_state["authenticated"]
IsAuthenticatedMut(state) == state.authenticated \/ state.auth_url # None

IsAuthenticated(state) == state.authenticated

\* async with logs_lock: the lock can be taken
LogsLockFreeMut(lock) == TRUE

LogsLockFree(lock) == lock = 0

NotAuthenticatedText ==
    <<"Not authenticated with Chainguard. Please authenticate first.">>

\* what chainver -o json --detailed prints for request r: with exit status 0
\* a document (with one verified artifact, with an empty results list, with
\* an empty nestedResults list) or text that is not JSON, or a complaint and
\* exit status 1.  The token r stands for the part of the text that differs
\* from run to run.
ChainverOutputs(r) ==
    { [returncode |-> 0, stderr |-> <<>>,
       stdout |-> <<"{\"run\": ", ToString(r), body>>] :
          body \in {", \"results\": [flask 100]}", ", \"results\": []}",
                    ", \"nestedResults\": []}"} }
    \cup
    { [returncode |-> 0, stderr |-> <<>>,
       stdout |-> <<"chainver: verified wheels", " ", ToString(r)>>],
      [returncode |-> 1, stdout |-> <<>>,
       stderr |-> <<"chainver: cannot verify", " ", ToString(r)>>] }

\* what chainver -v --detailed prints for request r
VerboseOutputs(r) ==
    { [returncode |-> 0, stderr |-> <<>>,
       stdout |-> <<"verified flask", " ", ToString(r), "\n">>],
      [returncode |-> 1, stdout |-> <<>>,
       stderr |-> <<"chainver: cannot verify", " ", ToString(r)>>] }

\* what date prints when request r asks
DateOutput(r) == <<"Sun Nov  1 00:00:0", ToString(r), " UTC 2026", "\n">>

\* line 222: json.loads(stdout.decode())
ChainverLoads(text) ==
    IF Len(text) = 3 /\ text[1] = "{\"run\": "
    THEN IF text[3] = ", \"results\": [flask 100]}"
         THEN [run |-> text[2],
               results |-> <<[artifact |-> WheelPath,
                              artifactVerificationCoverage |-> 100]>>]
         ELSE IF text[3] = ", \"results\": []}"
         THEN [run |-> text[2], results |-> <<>>]
         ELSE IF text[3] = ", \"nestedResults\": []}"
         THEN [run |-> text[2], nestedResults |-> <<>>]
         ELSE Raised("JSONDecodeError")
    ELSE Raised("JSONDecodeError")

\* lines 218 and 2121: stdout.decode() + "\n\n" + stderr.decode()
LogText(stdout, stderr) == stdout \o <<"\n\n">> \o stderr

\* lines 221-228: what get_chainver_results returns after the logs are stored
ChainverResultsMut(run) ==
    IF run.returncode = 0 /\ run.stdout # <<>>
    THEN LET chainver_data == ChainverLoads(run.stdout)
         IN  IF IsRaised(chainver_data)
             THEN parse_chainver_output(EmptyDict)
             ELSE IF Get(chainver_data, "results", <<>>) = <<>>
             THEN [error |-> <<"No results">>]
             ELSE parse_chainver_output(chainver_data)
    ELSE [error |-> <<"Unable to run chainver">>, stderr |-> run.stderr]

ChainverResults(run) ==
    IF run.returncode = 0 /\ run.stdout # <<>>
    THEN LET chainver_data == ChainverLoads(run.stdout)
         IN  IF IsRaised(chainver_data)
             THEN [error |-> <<chainver_data.raised>>]
             ELSE parse_chainver_output(chainver_data)
    ELSE [error |-> <<"Unable to run chainver">>, stderr |-> run.stderr]

\* a handler returns
RunReturn(a, r, kind, response) ==
    [a EXCEPT !.runs[r] = [@ EXCEPT !.kind = kind, !.pc = "done",
                                  !.response = response],
              !.auth_lock = IF @ = r THEN 0 ELSE @]

\* lines 197-201 and 2100-2104: the verifier is spawned
RunSpawnMut(a, r, kind) ==
    [a EXCEPT !.runs[r] = [@ EXCEPT !.kind = kind, !.pc = "chainver",
                                  !.child = "running"]]

RunSpawn(a, r, kind) ==
    [a EXCEPT !.runs[r] = [@ EXCEPT !.kind = kind, !.pc = "chainver",
                                  !.child = "running"],
              !.auth_lock = 0]

\* lines 202-210 and 2105-2113: the verifier has ended and date is spawned
RunChildExitMut(a, r, out) ==
    [a EXCEPT !.runs[r] = [@ EXCEPT !.pc = "date", !.child = "exited",
                                  !.date_child = "running",
                                  !.returncode = out.returncode,
                                  !.stdout = out.stdout, !.stderr = out.stderr],
              !.auth_state.authenticated = (out.returncode = 0)]

RunChildExit(a, r, out) ==
    [a EXCEPT !.runs[r] = [@ EXCEPT !.pc = "date", !.child = "exited",
                                  !.date_child = "running",
                                  !.returncode = out.returncode,
                                  !.stdout = out.stdout, !.stderr = out.stderr]]

\* lines 211-218 and 2114-2121: date has ended, logs_lock is taken and the
\* output is stored
RunStoreOutput(a, r, key) ==
    [a EXCEPT !.runs[r] = [@ EXCEPT !.pc = "store", !.date_child = "exited",
                                  !.date_stdout = DateOutput(r)],
              !.logs_lock = r,
              !.chainver_logs = DictPut(@, key, LogText(a.runs[r].stdout, a.runs[r].stderr))]

\* lines 219 and 2122: the date is stored and logs_lock is released
RunStoreDateMut(a, r, key) ==
    [a EXCEPT !.logs_lock = 0,
              !.chainver_logs = DictPut(DictPut(@, key, Strip(a.runs[r].date_stdout)),
                                        "last_run", Strip(a.runs[r].date_stdout))]

RunStoreDate(a, r, key) ==
    [a EXCEPT !.logs_lock = 0,
              !.chainver_logs = DictPut(@, key, Strip(a.runs[r].date_stdout))]

\* line 2054: async with auth_lock, once the lock can be taken
RunGate(a, r, kind) ==
    [a EXCEPT !.runs[r] = [@ EXCEPT !.kind = kind, !.pc = "gate"], !.auth_lock = r]

\* lines 2051-2054: chainver_api enters the section under auth_lock
ChainverApiGate(r) ==
    /\ app.runs[r].pc = "idle"
    /\ AuthLockFree(app.auth_lock)
    /\ app' = RunGate(app, r, "normal")
    /\ UNCHANGED <<cv, wh, hs, pv, rt, sb, pep>>

\* lines 2055-2059: the flag is false; the section is left with the response
ChainverApiUnauthorized(r) ==
    /\ app.runs[r].pc = "gate"
    /\ app.runs[r].kind = "normal"
    /\ ~IsAuthenticated(app.auth_state)
    /\ app' = RunReturn(app, r, "normal",
                        json_response([error |-> NotAuthenticatedText], 401))
    /\ UNCHANGED <<cv, wh, hs, pv, rt, sb, pep>>

\* lines 2061-2062, 188-190: there are no wheel files
ChainverApiNoWheels(r) ==
    /\ app.runs[r].pc = "gate"
    /\ app.runs[r].kind = "normal"
    /\ IsAuthenticated(app.auth_state)
    /\ app' = RunReturn(app, r, "normal",
                        json_response([error |-> <<"No wheel files found in /app/wheels/">>], 200))
    /\ UNCHANGED <<cv, wh, hs, pv, rt, sb, pep>>

\* lines 197-201, 227-228: chainver cannot be spawned
ChainverApiSpawnError(r) ==
    /\ app.runs[r].pc = "gate"
    /\ app.runs[r].kind = "normal"
    /\ IsAuthenticated(app.auth_state)
    /\ app' = RunReturn(app, r, "normal", json_response([error |-> SpawnErrorText], 200))
    /\ UNCHANGED <<cv, wh, hs, pv, rt, sb, pep>>

\* lines 2061, 180-201
ChainverApiSpawn(r) ==
    /\ app.runs[r].pc = "gate"
    /\ app.runs[r].kind = "normal"
    /\ IsAuthenticated(app.auth_state)
    /\ app' = RunSpawn(app, r, "normal")
    /\ UNCHANGED <<cv, wh, hs, pv, rt, sb, pep>>

\* lines 202, 227-228: wait_for gives up after 300 seconds; nothing ends the
\* child
ChainverApiTimeout(r) ==
    /\ app.runs[r].pc = "chainver"
    /\ app.runs[r].kind = "normal"
    /\ app' = RunReturn(app, r, "normal", json_response([error |-> NoMessage], 200))
    /\ UNCHANGED <<cv, wh, hs, pv, rt, sb, pep>>

\* lines 202-210: chainver ends and date is spawned
ChainverApiExit(r) ==
    /\ app.runs[r].pc = "chainver"
    /\ app.runs[r].kind = "normal"
    /\ \E out \in ChainverOutputs(r) : app' = RunChildExit(app, r, out)
    /\ UNCHANGED <<cv, wh, hs, pv, rt, sb, pep>>

\* lines 202-210, 227-228: chainver ends and date cannot be spawned
ChainverApiDateSpawnError(r) ==
    /\ app.runs[r].pc = "chainver"
    /\ app.runs[r].kind = "normal"
    /\ \E out \in ChainverOutputs(r) :
        app' = RunReturn([RunChildExit(app, r, out) EXCEPT !.runs[r].date_child = "none"],
                         r, "normal", json_response([error |-> SpawnErrorText], 200))
    /\ UNCHANGED <<cv, wh, hs, pv, rt, sb, pep>>

\* lines 211-218
ChainverApiStoreOutput(r) ==
    /\ app.runs[r].pc = "date"
    /\ app.runs[r].kind = "normal"
    /\ LogsLockFree(app.logs_lock)
    /\ app' = RunStoreOutput(app, r, "normal_output")
    /\ UNCHANGED <<cv, wh, hs, pv, rt, sb, pep>>

\* lines 219-226, 2062
ChainverApiStoreDate(r) ==
    /\ app.runs[r].pc = "store"
    /\ app.runs[r].kind = "normal"
    /\ app' = RunReturn(RunStoreDate(app, r, "last_run"), r, "normal",
                        json_response(ChainverResults(app.runs[r]), 200))
    /\ UNCHANGED <<cv, wh, hs, pv, rt, sb, pep>>

\* lines 2076-2081: chainver_verbose_api enters the section under auth_lock
ChainverVerboseApiGate(r) ==
    /\ app.runs[r].pc = "idle"
    /\ AuthLockFree(app.auth_lock)
    /\ app' = RunGate(app, r, "verbose")
    /\ UNCHANGED <<cv, wh, hs, pv, rt, sb, pep>>

\* lines 2082-2086: the flag is false; the section is left with the response
ChainverVerboseApiUnauthorized(r) ==
    /\ app.runs[r].pc = "gate"
    /\ app.runs[r].kind = "verbose"
    /\ ~IsAuthenticated(app.auth_state)
    /\ app' = RunReturn(app, r, "verbose",
                        json_response([error |-> NotAuthenticatedText], 401))
    /\ UNCHANGED <<cv, wh, hs, pv, rt, sb, pep>>

\* lines 2088-2095: there are no wheel files
ChainverVerboseApiNoWheels(r) ==
    /\ app.runs[r].pc = "gate"
    /\ app.runs[r].kind = "verbose"
    /\ IsAuthenticated(app.auth_state)
    /\ app' = RunReturn(app, r, "verbose",
                        json_response([error |-> <<"No wheel files found">>], 404))
    /\ UNCHANGED <<cv, wh, hs, pv, rt, sb, pep>>

\* lines 2103-2107, 2129-2130: chainver cannot be spawned
ChainverVerboseApiSpawnError(r) ==
    /\ app.runs[r].pc = "gate"
    /\ app.runs[r].kind = "verbose"
    /\ IsAuthenticated(app.auth_state)
    /\ app' = RunReturn(app, r, "verbose", json_response([error |-> SpawnErrorText], 500))
    /\ UNCHANGED <<cv, wh, hs, pv, rt, sb, pep>>

\* lines 2088-2107
ChainverVerboseApiSpawn(r) ==
    /\ app.runs[r].pc = "gate"
    /\ app.runs[r].kind = "verbose"
    /\ IsAuthenticated(app.auth_state)
    /\ app' = RunSpawn(app, r, "verbose")
    /\ UNCHANGED <<cv, wh, hs, pv, rt, sb, pep>>

\* lines 2108, 2129-2130: wait_for gives up after 60 seconds; nothing ends
\* the child
ChainverVerboseApiTimeout(r) ==
    /\ app.runs[r].pc = "chainver"
    /\ app.runs[r].kind = "verbose"
    /\ app' = RunReturn(app, r, "verbose", json_response([error |-> NoMessage], 500))
    /\ UNCHANGED <<cv, wh, hs, pv, rt, sb, pep>>

\* lines 2108-2116: chainver ends and date is spawned
ChainverVerboseApiExit(r) ==
    /\ app.runs[r].pc = "chainver"
    /\ app.runs[r].kind = "verbose"
    /\ \E out \in VerboseOutputs(r) : app' = RunChildExit(app, r, out)
    /\ UNCHANGED <<cv, wh, hs, pv, rt, sb, pep>>

\* lines 2108-2116, 2129-2130: chainver ends and date cannot be spawned
ChainverVerboseApiDateSpawnError(r) ==
    /\ app.runs[r].pc = "chainver"
    /\ app.runs[r].kind = "verbose"
    /\ \E out \in VerboseOutputs(r) :
        app' = RunReturn([RunChildExit(app, r, out) EXCEPT !.runs[r].date_child = "none"],
                         r, "verbose", json_response([error |-> SpawnErrorText], 500))
    /\ UNCHANGED <<cv, wh, hs, pv, rt, sb, pep>>

\* lines 2117-2121
ChainverVerboseApiStoreOutput(r) ==
    /\ app.runs[r].pc = "date"
    /\ app.runs[r].kind = "verbose"
    /\ LogsLockFree(app.logs_lock)
    /\ app' = RunStoreOutput(app, r, "verbose_output")
    /\ UNCHANGED <<cv, wh, hs, pv, rt, sb, pep>>

\* lines 2122-2127: the response is built from chainver_logs with no await
\* after the section
ChainverVerboseApiStoreDateMut(r) ==
    /\ app.runs[r].pc = "store"
    /\ app.runs[r].kind = "verbose"
    /\ app' = RunReturn(RunStoreDate(app, r, "verbose_last_run"), r, "verbose",
                    json_response([verbose |-> app.chainver_logs["verbose_output"],
                                   last_run |-> Get(app.chainver_logs, "verbose_last_run", <<>>)],
                                  200))
    /\ UNCHANGED <<cv, wh, hs, pv, rt, sb, pep>>

ChainverVerboseApiStoreDate(r) ==
    /\ app.runs[r].pc = "store"
    /\ app.runs[r].kind = "verbose"
    /\ LET stored == RunStoreDate(app, r, "verbose_last_run")
       IN  app' = RunReturn(stored, r, "verbose",
                    json_response([verbose |-> stored.chainver_logs["verbose_output"],
                                   last_run |-> stored.chainver_logs["verbose_last_run"]],
                                  200))
    /\ UNCHANGED <<cv, wh, hs, pv, rt, sb, pep>>

\* lines 2067-2073: the body of the response
LogsSnapshot(logs) ==
    [verbose |-> Get(logs, "verbose_output", <<>>),
     normal |-> Get(logs, "normal_output", <<>>),
     last_run |-> Get(logs, "last_run", <<>>),
     verbose_last_run |-> Get(logs, "verbose_last_run", <<>>)]

\* lines 2065-2073
ChainverLogsApi ==
    /\ app.phase = "running"
    /\ LogsLockFree(app.logs_lock)
    /\ app' = [app EXCEPT !.logs_response = json_response(LogsSnapshot(app.chainver_logs), 200)]
    /\ UNCHANGED <<cv, wh, hs, pv, rt, sb, pep>>

Next ==
    \/ OnStartup
    \/ AuthCheckSpawn
    \/ AuthCheckSpawnError
    \/ AuthAlreadyAuthenticated
    \/ AuthNotAuthenticated
    \/ AuthUrlPublished
    \/ AuthOutputUndecodable
    \/ AuthNoUrl
    \/ AuthLoginExit
    \/ ChainverLogsApi
    \/ \E r \in Runs :
        \/ ChainverApiGate(r)
        \/ ChainverApiUnauthorized(r)
        \/ ChainverApiNoWheels(r)
        \/ ChainverApiSpawnError(r)
        \/ ChainverApiSpawn(r)
        \/ ChainverApiTimeout(r)
        \/ ChainverApiExit(r)
        \/ ChainverApiDateSpawnError(r)
        \/ ChainverApiStoreOutput(r)
        \/ ChainverApiStoreDate(r)
        \/ ChainverVerboseApiGate(r)
        \/ ChainverVerboseApiUnauthorized(r)
        \/ ChainverVerboseApiNoWheels(r)
        \/ ChainverVerboseApiSpawnError(r)
        \/ ChainverVerboseApiSpawn(r)
        \/ ChainverVerboseApiTimeout(r)
        \/ ChainverVerboseApiExit(r)
        \/ ChainverVerboseApiDateSpawnError(r)
        \/ ChainverVerboseApiStoreOutput(r)
        \/ ChainverVerboseApiStoreDate(r)

Spec == Init /\ [][Next]_vars

\* The application under the scheduling asyncio gives: a task that can run
\* does run, and a wait under wait_for ends.  Nothing is assumed of what
\* the login process prints or of when it exits: the worker's steps from
\* "login" and "waiting" happen only if the process makes them happen.
SpecLive ==
    /\ Spec
    /\ WF_vars(OnStartup)
    /\ WF_vars(AuthCheckSpawn \/ AuthCheckSpawnError)
    /\ WF_vars(AuthAlreadyAuthenticated \/ AuthNotAuthenticated)

(***************************************************************************)
(* Properties of the application.                                          *)
(***************************************************************************)
\* C1: whenever auth_state.authenticated is false, a request to chainver_api
\* or chainver_verbose_api that reads the flag returns 401 in that step, has
\* spawned no child, and leaves chainver_logs as it was.
C1_UnauthorizedImmediately ==
    [][\A r \in Runs :
        (/\ app.runs[r].pc = "gate"
         /\ ~app.auth_state.authenticated
         /\ app'.runs[r] # app.runs[r]) =>
            /\ app'.runs[r].pc = "done"
            /\ app'.runs[r].response.status = 401
            /\ app'.runs[r].child = "none"
            /\ app'.runs[r].date_child = "none"
            /\ app'.worker = app.worker
            /\ app'.chainver_logs = app.chainver_logs]_vars

C1_Witness ==
    /\ ~app.auth_state.authenticated
    /\ app.auth_state.auth_url # None
    /\ \E r1, r2 \in Runs :
        /\ app.runs[r1].kind = "normal"
        /\ app.runs[r1].response.status = 401
        /\ app.runs[r2].kind = "verbose"
        /\ app.runs[r2].response.status = 401

AuthPhase(a) ==
    IF a.auth_state.error # None THEN "Failed"
    ELSE IF a.auth_state.authenticated THEN "Authenticated"
    ELSE IF a.auth_state.auth_url # None THEN "AwaitingUserAction"
    ELSE IF a.worker.pc = "unstarted" THEN "Unstarted"
    ELSE "Checking"

AuthMoves ==
    { <<"Unstarted", "Checking">>,
      <<"Checking", "Authenticated">>,
      <<"Checking", "AwaitingUserAction">>,
      <<"Checking", "Failed">>,
      <<"AwaitingUserAction", "Authenticated">>,
      <<"AwaitingUserAction", "Failed">> }

\* C6: the authentication state changes only along Unstarted -> Checking,
\* Checking -> Authenticated, Checking -> AwaitingUserAction, Checking ->
\* Failed, AwaitingUserAction -> Authenticated and AwaitingUserAction ->
\* Failed; and once auth_state.error is set it keeps its value, authenticated
\* stays false and no login process is started.
C6_AuthStateMachine ==
    [][/\ AuthPhase(app)' # AuthPhase(app) =>
            <<AuthPhase(app), AuthPhase(app)'>> \in AuthMoves
       /\ app.auth_state.error # None =>
            /\ app'.auth_state.error = app.auth_state.error
            /\ ~app'.auth_state.authenticated
            /\ app'.worker.logins = app.worker.logins]_vars

C6_Witness ==
    /\ app.auth_state.error = <<"Authentication failed">>
    /\ app.auth_state.auth_url = LoginUrl
    /\ app.worker.pc = "done"
    /\ \E r \in Runs : app.runs[r].response.status = 401

\* C22: every wait on a child has an upper bound: a handler awaiting the
\* verifier or date, and the worker awaiting chainctl auth status, can always
\* take a step that ends the wait while the child is still running.
C22_EveryWaitBounded ==
    /\ \A r \in Runs :
        /\ app.runs[r].pc = "chainver" =>
                ENABLED (Next /\ app'.runs[r].pc # "chainver"
                              /\ app'.runs[r].child = "running")
        /\ app.runs[r].pc = "date" =>
                ENABLED (Next /\ app'.runs[r].pc # "date"
                              /\ app'.runs[r].date_child = "running")
    /\ app.worker.pc = "checking" =>
            ENABLED (Next /\ app'.worker.pc # "checking"
                          /\ app'.worker.check = "running")

\* C23: once the login process is started, a login URL is published or the
\* state becomes Failed with an error recorded (the process having been
\* killed when no URL came); the state does not stay in Checking forever.
C23_NoUrlLeadsToFailed ==
    (app.worker.pc = "login") ~>
        (app.auth_state.auth_url # None \/ app.auth_state.error # None)

\* C26: when a normal run whose verifier has ended returns, whatever the exit
\* status, chainver_logs holds that run's stdout, a blank line and its
\* stderr in normal_output and that run's timestamp in last_run; and a run
\* whose verifier exited with a non-zero status returns an error carrying
\* the verifier's stderr, and no records.
C26_RunIsLogged ==
    [][\A r \in Runs :
        (/\ app.runs[r].pc # "done"
         /\ app'.runs[r].pc = "done"
         /\ app'.runs[r].kind = "normal"
         /\ app'.runs[r].child = "exited") =>
            /\ "normal_output" \in DOMAIN app'.chainver_logs
            /\ app'.chainver_logs["normal_output"] =
                    app'.runs[r].stdout \o <<"\n\n">> \o app'.runs[r].stderr
            /\ app'.runs[r].date_child = "exited"
            /\ app'.chainver_logs["last_run"] = Strip(app'.runs[r].date_stdout)
            /\ app'.runs[r].returncode # 0 =>
                    /\ "error" \in DOMAIN app'.runs[r].response.body
                    /\ "packages" \notin DOMAIN app'.runs[r].response.body
                    /\ Get(app'.runs[r].response.body, "stderr", None) = app'.runs[r].stderr]_vars

\* C27: auth_state.authenticated, once true, stays true, and the verifier is
\* spawned for a request only in a state where it is true.
C27_AuthenticatedMonotone ==
    [][/\ app.auth_state.authenticated => app'.auth_state.authenticated
       /\ \A r \in Runs :
            (app.runs[r].child = "none" /\ app'.runs[r].child = "running") =>
                app.auth_state.authenticated /\ app'.auth_state.authenticated]_vars

\* authenticated is true after one request's verifier has failed and while
\* another request's verifier is running
C27_Witness ==
    /\ app.auth_state.authenticated
    /\ \E r1, r2 \in Runs :
        /\ app.runs[r1].pc = "done" /\ app.runs[r1].returncode = 1
        /\ app.runs[r2].pc = "chainver" /\ app.runs[r2].child = "running"

\* the fields of chainver_logs that a run of the other kind writes
OtherFields(kind) ==
    IF kind = "normal" THEN {"verbose_output", "verbose_last_run"}
    ELSE {"normal_output", "last_run"}

\* C29: a run that returns before its verifier has ended (timeout, failure
\* to spawn, refusal) leaves chainver_logs as it was, and no step of a normal
\* run changes verbose_output or verbose_last_run, nor a step of a verbose
\* run normal_output or last_run.
C29_LogsFrame ==
    [][\A r \in Runs :
        app'.runs[r] # app.runs[r] =>
            /\ (app'.runs[r].pc = "done" /\ app'.runs[r].child # "exited") =>
                    app'.chainver_logs = app.chainver_logs
            /\ \A k \in OtherFields(app'.runs[r].kind) :
                    /\ k \in DOMAIN app'.chainver_logs <=> k \in DOMAIN app.chainver_logs
                    /\ k \in DOMAIN app.chainver_logs =>
                            app'.chainver_logs[k] = app.chainver_logs[k]]_vars

\* a verbose run has stored its output and date, a normal run has timed out,
\* and the log holds what the verbose run stored and no more
C29_Witness ==
    \E r1, r2 \in Runs :
        /\ app.runs[r1].kind = "verbose" /\ app.runs[r1].pc = "done"
        /\ app.runs[r1].date_child = "exited"
        /\ app.runs[r2].kind = "normal" /\ app.runs[r2].pc = "done"
        /\ app.runs[r2].child = "running"
        /\ app.chainver_logs =
                [verbose_output |-> LogText(app.runs[r1].stdout, app.runs[r1].stderr),
                 last_run |-> None,
                 verbose_last_run |-> Strip(app.runs[r1].date_stdout)]

\* C30: the verbose output and the date in the response of a verbose run are
\* the ones that run stored, whatever other verbose runs store before or
\* after it.
C30_ResponseIsOwn ==
    \A r \in Runs :
        (/\ app.runs[r].kind = "verbose"
         /\ app.runs[r].pc = "done"
         /\ app.runs[r].response.status = 200) =>
            /\ app.runs[r].response.body.verbose =
                    app.runs[r].stdout \o <<"\n\n">> \o app.runs[r].stderr
            /\ app.runs[r].response.body.last_run = Strip(app.runs[r].date_stdout)

\* two verbose runs have answered and the log holds what the later one
\* stored, which is not what the earlier one answered
C30_Witness ==
    \E r1, r2 \in Runs :
        /\ r1 # r2
        /\ app.runs[r1].kind = "verbose" /\ app.runs[r1].response.status = 200
        /\ app.runs[r2].kind = "verbose" /\ app.runs[r2].response.status = 200
        /\ app.chainver_logs["verbose_output"] = app.runs[r2].response.body.verbose
        /\ app.chainver_logs["verbose_output"] # app.runs[r1].response.body.verbose

\* C24: auth_lock and logs_lock are never held by one request at once; the
\* holder of auth_lock can always take a step that releases it, and the
\* holder of logs_lock is at the second store, which waits for nothing and
\* releases it, so no state is a deadlock on the locks; and a request enters
\* the auth_lock section whenever auth_lock is free, whoever holds logs_lock.
C24_LocksApart ==
    /\ \A r \in Runs : ~(app.auth_lock = r /\ app.logs_lock = r)
    /\ \A r \in Runs :
        /\ app.auth_lock = r =>
                ENABLED (\/ ChainverApiUnauthorized(r) \/ ChainverApiSpawn(r)
                         \/ ChainverVerboseApiUnauthorized(r)
                         \/ ChainverVerboseApiSpawn(r))
        /\ app.logs_lock = r =>
                app.runs[r].pc = "store" /\ app.runs[r].kind \in {"normal", "verbose"}
        /\ (app.runs[r].pc = "idle" /\ app.auth_lock = 0) =>
                ENABLED (ChainverApiGate(r) \/ ChainverVerboseApiGate(r))

\* one request is inside the logs_lock section while another is inside the
\* auth_lock section
C24_Witness ==
    \E r1, r2 \in Runs :
        /\ r1 # r2
        /\ app.logs_lock = r1 /\ app.runs[r1].pc = "store"
        /\ app.auth_lock = r2 /\ app.runs[r2].pc = "gate"

\* C28: auth_url and error, which auth_status_handler returns as they are,
\* are never both set: a login that fails after its URL was published
\* clears the URL.
C28_UrlOrError ==
    ~(app.auth_state.auth_url # None /\ app.auth_state.error # None)

\* C7: a handler that has returned, by completion or by timeout, has left no
\* child of its own running.
C7_NoChildLeftRunning ==
    \A r \in Runs :
        app.runs[r].pc = "done" =>
            app.runs[r].child # "running" /\ app.runs[r].date_child # "running"

\* C15: a verification run whose verifier output is not valid JSON answers
\* with an error and no record list; one whose output is a valid document
\* with an empty results or nestedResults list answers with zero records,
\* total_count 0 and verified_count 0, and no error.
C15_ErrorOrZeroRecords ==
    \A r \in Runs :
        LET run == app.runs[r]
            chainver_data == ChainverLoads(run.stdout)
        IN  (run.kind = "normal" /\ run.pc = "done" /\ run.child = "exited") =>
                /\ IsRaised(chainver_data) =>
                        /\ "error" \in DOMAIN run.response.body
                        /\ "packages" \notin DOMAIN run.response.body
                /\ ( /\ ~IsRaised(chainver_data)
                     /\ run.returncode = 0
                     /\ run.date_child = "exited"
                     /\ Get(chainver_data, "results", <<>>) = <<>>
                     /\ Get(chainver_data, "nestedResults", <<>>) = <<>> ) =>
                        /\ "error" \notin DOMAIN run.response.body
                        /\ run.response.body.packages = <<>>
                        /\ run.response.body.total_count = 0
                        /\ run.response.body.verified_count = 0

\* one run has answered text that is not JSON with an error, another an
\* empty nestedResults list with zero records
C15_Witness ==
    \E r1, r2 \in Runs :
        /\ app.runs[r1].kind = "normal" /\ app.runs[r1].pc = "done"
        /\ app.runs[r1].returncode = 0
        /\ app.runs[r1].stdout # <<>>
        /\ IsRaised(ChainverLoads(app.runs[r1].stdout))
        /\ app.runs[r1].response.body = [error |-> <<"JSONDecodeError">>]
        /\ app.runs[r2].kind = "normal" /\ app.runs[r2].pc = "done"
        /\ ChainverLoads(app.runs[r2].stdout) = [run |-> ToString(r2), nestedResults |-> <<>>]
        /\ app.runs[r2].response.status = 200
        /\ "error" \notin DOMAIN app.runs[r2].response.body
        /\ app.runs[r2].response.body.total_count = 0

\* the (output, date) pairs that the requests of one kind have stored
StoredBy(kind) ==
    { <<LogText(app.runs[r].stdout, app.runs[r].stderr), Strip(app.runs[r].date_stdout)>> :
        r \in { x \in Runs : /\ app.runs[x].kind = kind
                             /\ app.runs[x].pc = "done"
                             /\ app.runs[x].date_child = "exited" } }

\* C8: in every response of chainver_logs_api the normal output and last_run
\* were stored by one normal run, and the verbose output and
\* verbose_last_run by one verbose run, or are the values from before any
\* such run.
C8_ConsistentSnapshot ==
    app.logs_response # NoResponse =>
        LET body == app.logs_response.body
        IN  /\ <<body.normal, body.last_run>> \in StoredBy("normal") \cup {<<<<>>, None>>}
            /\ <<body.verbose, body.verbose_last_run>> \in
                    StoredBy("verbose") \cup {<<<<>>, <<>>>>}

C8_Witness ==
    /\ app.logs_response # NoResponse
    /\ Cardinality(StoredBy("normal")) = 2
    /\ <<app.logs_response.body.normal, app.logs_response.body.last_run>> \in StoredBy("normal")
    /\ app.chainver_logs["normal_output"] # app.logs_response.body.normal

=============================================================================
